---- MODULE Spec2Model ----
(***************************************************************************)
(* caddy-nats-bridge: the nats_request HTTP handler (request.Request), the *)
(* translation of an HTTP request into a NATS message                      *)
(* (common.NatsMsgForHttpRequest) and the timeout provisioning of          *)
(* natsbridge.NatsBridgeApp, as a state machine.                           *)
(*                                                                         *)
(* Strings whose characters matter (header names, header values, subjects, *)
(* bodies) are sequences of one-character strings, so that case folding,   *)
(* MIME canonicalisation and strconv.Atoi are computed and not assumed.    *)
(* Durations are whole seconds.  A Go pointer to a duration is a record    *)
(* [isNil, val].                                                           *)
(***************************************************************************)
EXTENDS Integers, Sequences, FiniteSets, TLC

VARIABLES
    config,   \* the configuration as parsed, before any Provision (never changes)
    app,      \* NatsBridgeApp: [Servers: alias -> [DefaultTimeout], provisioned]
    p,        \* Request handler: [Timeout, ServerAlias, provisioned, provisionErr]
    pc,       \* position of the one call in progress
    rIn,      \* the inbound *http.Request as the call received it
    r,        \* that request now (its Header is a map the call can change)
    msg,      \* the *nats.Msg built by NatsMsgForHttpRequest
    busCalls, \* the RequestMsg calls the call has issued: [subject, timeout]
    resp,     \* what RequestMsg returned: a reply or a failure kind
    w,        \* the http.ResponseWriter of the call
    ret,      \* what the call returned
    bus,      \* the far side of the pending RequestMsg: [responder, delay, elapsed, delivered]
    env,      \* the environment variables of the process: name -> value ("" when unset)
    redactHeadersOnce,  \* whether the sync.Once of getRedactHeadersList has run
    redactHeadersList,  \* the package variable it fills
    logHeaders,         \* the argument of the RedactHeaders call: [isNil, h]
    logResult,          \* what that call returned: [isNil, h]
    lc,        \* where the NatsBridgeApp is in the life the host gives it
    caddyfile, \* the nats blocks UnmarshalCaddyfile was given
    conns,     \* the bus connections nats.Connect has made: [alias, open]
    subs,      \* the subscriptions in force: [alias, handler, conn]
    ops,       \* the dial, subscribe, unsubscribe and close calls of the last Start or Stop
    appRet,    \* what the last UnmarshalCaddyfile, Provision, Start or Stop of the app returned
    calls,       \* the RedactHeaders calls of concurrent callers: [pc, hdrs, result]
    onceRunning, \* the caller that is inside redactHeadersOnce.Do, 0 when none is
    onceEnv,     \* what os.Getenv returned to the function of redactHeadersOnce.Do
    computed,    \* how often that function has run since the last reset
    first,       \* the first RedactHeaders call since the last reset, and the
                 \* values LOGGER_REDACT_HEADERS had while it ran: [caller, over, envs]
    need,        \* the same for the first call that was given a header
    resets       \* how often resetRedactHeadersCache has been called

\* the variables of package common's header logging, and the environment
logVars == <<env, redactHeadersOnce, redactHeadersList, logHeaders, logResult>>

\* the variables of the connection lifecycle
natsVars == <<lc, caddyfile, conns, subs, ops, appRet>>

\* the variables of concurrent RedactHeaders calls and of what they have seen
onceVars == <<calls, onceRunning, onceEnv, computed, first, need, resets>>

vars == <<config, app, p, pc, rIn, r, msg, busCalls, resp, w, ret, bus, logVars, natsVars,
          onceVars>>

---------------------------------------------------------------------------
(* Bounds of the model *)

MaxSubjectLen == 2
MaxReqLines == 2
MaxReplyLines == 2
MaxDelay == 2
MaxRedactEntries == 2
MaxBlocks == 2
MaxCallers == 2
MaxResets == 1

---------------------------------------------------------------------------
(* Characters and strings *)

UpperLetters == <<"A", "B", "C", "D", "E", "F", "G", "H", "I", "J", "K", "L", "M",
                  "N", "O", "P", "Q", "R", "S", "T", "U", "V", "W", "X", "Y", "Z">>
LowerLetters == <<"a", "b", "c", "d", "e", "f", "g", "h", "i", "j", "k", "l", "m",
                  "n", "o", "p", "q", "r", "s", "t", "u", "v", "w", "x", "y", "z">>
DigitChars == <<"0", "1", "2", "3", "4", "5", "6", "7", "8", "9">>
TokenPunct == {"!", "#", "$", "%", "&", "'", "*", "+", "-", ".", "^", "_", "|", "~"}

Range(s) == {s[i] : i \in DOMAIN s}

IsUpper(c) == c \in Range(UpperLetters)
IsLower(c) == c \in Range(LowerLetters)
IsDigit(c) == c \in Range(DigitChars)

IndexIn(s, c) == CHOOSE i \in DOMAIN s : s[i] = c

ToLowerChar(c) == IF IsUpper(c) THEN LowerLetters[IndexIn(UpperLetters, c)] ELSE c
ToUpperChar(c) == IF IsLower(c) THEN UpperLetters[IndexIn(LowerLetters, c)] ELSE c

\* strings.ToLower, for ASCII
ToLower(s) == [i \in 1..Len(s) |-> ToLowerChar(s[i])]

\* All sequences over S of length at most n
SeqsUpTo(S, n) == UNION {[1..k -> S] : k \in 0..n}

\* All orders in which a Go range statement may visit the keys of a map
Orders(S) == {o \in [1..Cardinality(S) -> S] : Range(o) = S}

\* net/textproto validHeaderFieldByte: the bytes of an RFC 7230 token (the
\* grave accent, also a token byte, is left out: no name of the model holds it)
ValidHeaderFieldByte(c) == IsUpper(c) \/ IsLower(c) \/ IsDigit(c) \/ c \in TokenPunct

\* net/textproto.CanonicalMIMEHeaderKey: a key holding a byte that is no token
\* byte is returned unchanged; otherwise the first letter and every letter that
\* follows a hyphen are upper case and all other letters lower case.
CanonicalMIMEHeaderKey(s) ==
    IF \E i \in 1..Len(s) : ~ValidHeaderFieldByte(s[i])
    THEN s
    ELSE [i \in 1..Len(s) |->
            IF i = 1 \/ s[i - 1] = "-" THEN ToUpperChar(s[i]) ELSE ToLowerChar(s[i])]

DigitVal(c) == IndexIn(DigitChars, c) - 1

RECURSIVE DigitsValue(_)
DigitsValue(s) ==
    IF Len(s) = 0 THEN 0
    ELSE 10 * DigitsValue(SubSeq(s, 1, Len(s) - 1)) + DigitVal(s[Len(s)])

\* strconv.Atoi: an optional sign, then one or more decimal digits, nothing
\* else.  (Its range error needs more than 18 digits; the values of this
\* model have at most four.)
Atoi(s) ==
    LET signed == Len(s) > 0 /\ s[1] \in {"+", "-"}
        digits == IF signed THEN SubSeq(s, 2, Len(s)) ELSE s
    IN  IF Len(digits) = 0 \/ \E i \in 1..Len(digits) : ~IsDigit(digits[i])
        THEN [err |-> TRUE, val |-> 0]
        ELSE [err |-> FALSE,
              val |-> IF signed /\ s[1] = "-" THEN 0 - DigitsValue(digits)
                      ELSE DigitsValue(digits)]

\* time.ParseDuration, for the forms 30s, 2m and 1h, in seconds
ParseDuration(s) ==
    LET n == IF Len(s) >= 2 THEN Atoi(SubSeq(s, 1, Len(s) - 1)) ELSE [err |-> TRUE, val |-> 0]
        unit == IF Len(s) >= 2 THEN s[Len(s)] ELSE ""
    IN  IF n.err \/ unit \notin {"s", "m", "h"} \/ s[1] \in {"+", "-"}
        THEN [err |-> TRUE, val |-> 0]
        ELSE [err |-> FALSE,
              val |-> n.val * (IF unit = "s" THEN 1 ELSE IF unit = "m" THEN 60 ELSE 3600)]

---------------------------------------------------------------------------
(* Header mappings: a function from names to non-empty sequences of values *)

EmptyHeader == [k \in {} |-> <<>>]

\* a nil http.Header, for the calls that tell nil from empty
NilHeader == [isNil |-> TRUE, h |-> EmptyHeader]

\* nats.Header.Add: case-sensitive, appends to the values the key already has
NatsHeaderAdd(h, k, v) ==
    [x \in (DOMAIN h) \cup {k} |->
        IF x = k THEN (IF k \in DOMAIN h THEN Append(h[k], v) ELSE <<v>>) ELSE h[x]]

\* nats.Header.Get: case-sensitive, the first value of the key, "" without it
NatsHeaderGet(h, k) == IF k \in DOMAIN h THEN h[k][1] ELSE <<>>

\* http.Header.Add: appends under the canonical form of the key
HttpHeaderAdd(h, k, v) == NatsHeaderAdd(h, CanonicalMIMEHeaderKey(k), v)

\* A header block as sent on the wire, a sequence of <<name, value>> lines,
\* decoded by the NATS client, which keeps the case of every name
RECURSIVE HeaderFromLines(_)
HeaderFromLines(lines) ==
    IF Len(lines) = 0 THEN EmptyHeader
    ELSE NatsHeaderAdd(HeaderFromLines(SubSeq(lines, 1, Len(lines) - 1)),
                       lines[Len(lines)][1], lines[Len(lines)][2])

---------------------------------------------------------------------------
(* The header names and values of the source, and the ones the model sends *)

\* the names ServeHTTP strips from a reply, as its condition spells them
HdrNatsServiceError == <<"N", "a", "t", "s", "-", "S", "e", "r", "v", "i", "c", "e",
                         "-", "E", "r", "r", "o", "r">>
HdrNatsServiceErrorCode == <<"N", "a", "t", "s", "-", "S", "e", "r", "v", "i", "c", "e",
                             "-", "E", "r", "r", "o", "r", "-", "C", "o", "d", "e">>
HdrNatsServiceErrorLower == <<"n", "a", "t", "s", "-", "s", "e", "r", "v", "i", "c", "e",
                              "-", "e", "r", "r", "o", "r">>
HdrNatsServiceErrorCodeLower == <<"n", "a", "t", "s", "-", "s", "e", "r", "v", "i", "c", "e",
                                  "-", "e", "r", "r", "o", "r", "-", "c", "o", "d", "e">>
HdrContentLength == <<"C", "o", "n", "t", "e", "n", "t", "-", "L", "e", "n", "g", "t", "h">>

\* the three headers NatsMsgForHttpRequest adds
HdrMethod == <<"X", "-", "N", "a", "t", "s", "B", "r", "i", "d", "g", "e",
               "-", "M", "e", "t", "h", "o", "d">>
HdrUrlPath == <<"X", "-", "N", "a", "t", "s", "B", "r", "i", "d", "g", "e",
                "-", "U", "r", "l", "P", "a", "t", "h">>
HdrUrlQuery == <<"X", "-", "N", "a", "t", "s", "B", "r", "i", "d", "g", "e",
                 "-", "U", "r", "l", "Q", "u", "e", "r", "y">>

\* the success sentinel of the status override
Code200 == <<"2", "0", "0">>

\* other spellings and names a peer may send
HdrNatsServiceErrorUpper == <<"N", "A", "T", "S", "-", "S", "E", "R", "V", "I", "C", "E",
                              "-", "E", "R", "R", "O", "R">>
HdrNatsServiceErrorCodeMixed == <<"N", "A", "T", "S", "-", "S", "e", "r", "v", "i", "c", "e",
                                  "-", "E", "r", "r", "o", "r", "-", "C", "o", "d", "e">>
HdrContentLengthLower == <<"c", "o", "n", "t", "e", "n", "t", "-", "l", "e", "n", "g", "t", "h">>
HdrRespHeader == <<"R", "e", "s", "p", "H", "e", "a", "d", "e", "r">>
HdrRespHeaderLower == <<"r", "e", "s", "p", "h", "e", "a", "d", "e", "r">>
HdrCustomHeader == <<"C", "u", "s", "t", "o", "m", "-", "H", "e", "a", "d", "e", "r">>
\* X-NatsBridge-Method as net/http stores it when it arrives on the wire
HdrMethodCanonical == <<"X", "-", "N", "a", "t", "s", "b", "r", "i", "d", "g", "e",
                        "-", "M", "e", "t", "h", "o", "d">>
HdrLargeBodyId == <<"X", "-", "L", "a", "r", "g", "e", "-", "B", "o", "d", "y", "-", "I", "d">>

HdrAuthorization == <<"A", "u", "t", "h", "o", "r", "i", "z", "a", "t", "i", "o", "n">>
HdrAuthorizationLower == <<"a", "u", "t", "h", "o", "r", "i", "z", "a", "t", "i", "o", "n">>
HdrAuthorizationUpper == <<"A", "U", "T", "H", "O", "R", "I", "Z", "A", "T", "I", "O", "N">>
HdrXApiKey == <<"X", "-", "A", "P", "I", "-", "K", "e", "y">>
Val30s == <<"3", "0", "s">>
\* what the nats blocks of a Caddyfile hold
UrlA == <<"n", "a", "t", "s", ":", "/", "/", "a">>
UrlB == <<"n", "a", "t", "s", ":", "/", "/", "b">>
FileCreds == <<"u", ".", "c", "r", "e", "d", "s">>
FileNkey == <<"k", ".", "n", "k">>
SubjectS1 == <<"s", "1">>
SubjectS2 == <<"s", "2">>
ValInvalid == <<"i", "n", "v", "a", "l", "i", "d">>

Code422 == <<"4", "2", "2">>
Code500 == <<"5", "0", "0">>
Code0 == <<"0">>
CodeAbc == <<"a", "b", "c">>
EmptyString == <<>>
ValGET == <<"G", "E", "T">>
ValDELETE == <<"D", "E", "L", "E", "T", "E">>
ValPath == <<"/", "t", "e", "s", "t", "/", "h", "i">>
ValQuery == <<"a", "=", "1">>
ValMyValue == <<"M", "y", "V", "a", "l", "u", "e">>
ValV1 == <<"v", "1">>
ValV2 == <<"v", "2">>
ValTwo == <<"2">>
ValOk == <<"o", "k">>

---------------------------------------------------------------------------
(* common.NatsMsgForHttpRequest *)

\* the characters a subject must not hold
invalidChars == {">", "$", " "}

\* a loop that returns after its first rune
SubjectIsValid_FirstRuneOnly(subject) ==
    Len(subject) = 0 \/ subject[1] \notin invalidChars

\* the loop over the runes of the subject: TRUE when none is in invalidChars
SubjectIsValid(subject) == \A i \in 1..Len(subject) : subject[i] \notin invalidChars

\* io.ReadAll(r.Body) with its error dropped: the bytes read before the body
\* failed, all of them when it did not fail
ReadAllIgnoringError(body) ==
    IF body.failsAfter < 0 THEN body.data
    ELSE SubSeq(body.data, 1, body.failsAfter)

\* the loop that adds the extra headers of the request context, in any order
\* (their names are distinct, so every order gives the same mapping)
RECURSIVE AddExtraHeaders(_, _)
AddExtraHeaders(h, extra) ==
    IF DOMAIN extra = {} THEN h
    ELSE LET k == CHOOSE x \in DOMAIN extra : TRUE
         IN  AddExtraHeaders(NatsHeaderAdd(h, k, extra[k]),
                             [x \in (DOMAIN extra) \ {k} |-> extra[x]])

\* the three Header.Add calls that follow the construction of the message
AddBridgeHeaders(h, req) ==
    NatsHeaderAdd(NatsHeaderAdd(NatsHeaderAdd(h, HdrMethod, req.Method),
                                HdrUrlPath, req.Path),
                  HdrUrlQuery, req.RawQuery)

NoMsg == [Subject |-> <<>>, Header |-> EmptyHeader, Data |-> <<>>, isNil |-> TRUE]

\* NatsMsgForHttpRequest(r, subject).  headers is nats.Header(r.Header), the
\* same map under another type, so every Add is an Add to r.Header too:
\* rHeader is what r.Header holds when the function returns.
NatsMsgForHttpRequest(req, subject) ==
    LET b == ReadAllIgnoringError(req.Body)
        headers == AddExtraHeaders(req.Header, req.ctxExtra)
    IN  IF ~SubjectIsValid(subject)
        THEN [err |-> TRUE, msg |-> NoMsg, rHeader |-> headers]
        ELSE LET all == AddBridgeHeaders(headers, req)
             IN  [err |-> FALSE,
                  msg |-> [Subject |-> subject, Header |-> all, Data |-> b,
                           isNil |-> FALSE],
                  rHeader |-> all]

---------------------------------------------------------------------------
(* The http.ResponseWriter that ServeHTTP is handed (net/http's response) *)

StatusOK == 200
StatusBadRequest == 400
StatusNotFound == 404
StatusInternalServerError == 500
StatusGatewayTimeout == 504

\* header: w.Header(), the map the handler fills; sentHeader: what that map
\* held when the status line was written; calls: the handler's calls in order.
NewResponseWriter ==
    [header |-> EmptyHeader, wroteHeader |-> FALSE, status |-> 0,
     sentHeader |-> EmptyHeader, informational |-> <<>>, body |-> <<>>,
     calls |-> <<>>, panicked |-> FALSE]

\* what net/http does with a status code: a call after the header was written
\* is ignored; a code outside 100..999 panics; a 1xx code other than 101 sends
\* an informational response and leaves the final status open; any other code
\* becomes the status of the response, sent with the headers set so far.
SendStatus(rw, code) ==
    IF rw.wroteHeader THEN rw
    ELSE IF code < 100 \/ code > 999 THEN [rw EXCEPT !.panicked = TRUE]
    ELSE IF code >= 100 /\ code <= 199 /\ code # 101
         THEN [rw EXCEPT !.informational = Append(@, code)]
    ELSE [rw EXCEPT !.wroteHeader = TRUE, !.status = code, !.sentHeader = rw.header]

\* w.WriteHeader(code)
WriteHeader(rw, code) ==
    SendStatus([rw EXCEPT !.calls = Append(@, [op |-> "WriteHeader", code |-> code])],
               code)

\* w.Header().Add(k, v)
WriterHeaderAdd(rw, k, v) ==
    [rw EXCEPT !.header = HttpHeaderAdd(@, k, v),
               !.calls = Append(@, [op |-> "Header.Add", code |-> 0])]

\* w.Write(data): writes status 200 first when no status was written; no body
\* goes out with status 204 or 304; connOk is whether the connection takes
\* the bytes.  Gives the writer and whether Write returned an error.
Write(rw, data, connOk) ==
    LET rw1 == SendStatus([rw EXCEPT !.calls = Append(@, [op |-> "Write", code |-> 0])],
                          StatusOK)
    IN  IF Len(data) = 0 THEN [w |-> rw1, err |-> FALSE]
        ELSE IF rw1.status \in {204, 304} \/ ~connOk THEN [w |-> rw1, err |-> TRUE]
        ELSE [w |-> [rw1 EXCEPT !.body = @ \o data], err |-> FALSE]

---------------------------------------------------------------------------
(* Durations and the pointers to them *)

NilDuration == [isNil |-> TRUE, val |-> 0]
PtrTo(d) == [isNil |-> FALSE, val |-> d]

\* natsbridge.DefaultTimeout, 60 * time.Second
DefaultTimeout == 60

---------------------------------------------------------------------------
(* NatsBridgeApp.Provision and Request.Provision *)

\* the zero NatsServer, as UnmarshalCaddyfile makes it for a new alias.  Conn
\* is 0 for nil, else the position of the connection in conns.  (JWT, Seed,
\* ClientName and InboxPrefix only choose options of the dial and are left out.)
NewServer ==
    [NatsUrl |-> <<>>, UserCredentialFile |-> <<>>, NkeyCredentialFile |-> <<>>,
     DefaultTimeout |-> [isNil |-> TRUE, val |-> 0],
     HandlersRaw |-> <<>>, Handlers |-> <<>>, Conn |-> 0]

\* a loop that takes a zero default for a missing one
ProvisionServers_ZeroIsUnset(servers) ==
    [a \in DOMAIN servers |->
        IF servers[a].DefaultTimeout.isNil \/ servers[a].DefaultTimeout.val = 0
        THEN [servers[a] EXCEPT !.DefaultTimeout = PtrTo(DefaultTimeout)]
        ELSE servers[a]]

\* the loop of NatsBridgeApp.Provision over app.Servers: a server without a
\* default timeout gets the package default, any other keeps its own
ProvisionServers(servers) ==
    [a \in DOMAIN servers |->
        IF servers[a].DefaultTimeout.isNil
        THEN [servers[a] EXCEPT !.DefaultTimeout = PtrTo(DefaultTimeout)]
        ELSE servers[a]]

\* a precedence with the two upper tiers swapped
ResolveTimeout_ServerFirst(routeTimeout, server) ==
    IF ~server.DefaultTimeout.isNil THEN server.DefaultTimeout
    ELSE IF ~routeTimeout.isNil THEN routeTimeout
    ELSE PtrTo(DefaultTimeout)

\* a Provision that resolves nothing, as in the variant of the handler whose
\* Provision only fetched the app
ResolveTimeout_Unresolved(routeTimeout, server) == routeTimeout

\* the timeout Request.Provision leaves in p.Timeout, given the server found
ResolveTimeout(routeTimeout, server) ==
    IF routeTimeout.isNil
    THEN IF ~server.DefaultTimeout.isNil THEN server.DefaultTimeout
         ELSE PtrTo(DefaultTimeout)
    ELSE routeTimeout

\* the second loop of NatsBridgeApp.Provision, every module loading: the
\* handlers of a server that has raw handlers are appended to its Handlers
LoadHandlers(servers) ==
    [a \in DOMAIN servers |->
        IF servers[a].HandlersRaw # <<>>
        THEN [servers[a] EXCEPT !.Handlers = @ \o servers[a].HandlersRaw]
        ELSE servers[a]]

\* NatsBridgeApp.Provision returning nil
ProvisionedApp(a) ==
    [a EXCEPT !.Servers = LoadHandlers(ProvisionServers(a.Servers)), !.provisioned = TRUE]

\* The host provisions the nats app on its own ...
AppProvision ==
    /\ ~app.provisioned
    /\ lc = "parsed"
    /\ app' = ProvisionedApp(app)
    /\ appRet' = "nil"
    /\ UNCHANGED <<config, p, pc, r, rIn, msg, busCalls, resp, w, ret, bus, logVars,
                   lc, caddyfile, conns, subs, ops, onceVars>>

\* NatsBridgeApp.Provision returning the error of ctx.LoadModule: the default
\* timeouts are set, the handlers of the servers the loop visited before the
\* one that failed are loaded, and the host gives the app up
AppProvision_LoadFails ==
    /\ ~app.provisioned
    /\ lc = "parsed"
    /\ \E failed \in {a \in DOMAIN app.Servers : app.Servers[a].HandlersRaw # <<>>} :
        \E visited \in SUBSET ((DOMAIN app.Servers) \ {failed}) :
            LET timed == ProvisionServers(app.Servers)
                loaded == LoadHandlers(timed)
            IN  app' = [app EXCEPT !.Servers =
                            [a \in DOMAIN timed |->
                                IF a \in visited THEN loaded[a] ELSE timed[a]]]
    /\ lc' = "provisionFailed"
    /\ appRet' = "errLoadModule"
    /\ UNCHANGED <<config, p, pc, r, rIn, msg, busCalls, resp, w, ret, bus, logVars,
                   caddyfile, conns, subs, ops, onceVars>>

\* ... or when Request.Provision asks for it: ctx.App("nats") loads and
\* provisions the app if that has not happened yet.  Then the server of the
\* alias is looked up (an unknown alias is an error) and the timeout resolved.
RequestProvision ==
    /\ ~p.provisioned /\ ~p.provisionErr
    /\ LET app1 == IF app.provisioned THEN app ELSE ProvisionedApp(app)
       IN  /\ app' = app1
           /\ IF p.ServerAlias \notin DOMAIN app1.Servers
              THEN p' = [p EXCEPT !.provisionErr = TRUE]
              ELSE p' = [p EXCEPT !.Timeout = ResolveTimeout(p.Timeout,
                                                app1.Servers[p.ServerAlias]),
                                  !.provisioned = TRUE]
    /\ appRet' = IF app.provisioned THEN appRet ELSE "nil"
    /\ UNCHANGED <<config, pc, r, rIn, msg, busCalls, resp, w, ret, bus, logVars,
                   lc, caddyfile, conns, subs, ops, onceVars>>

---------------------------------------------------------------------------
(* Request.ServeHTTP *)

NoRequest ==
    [Method |-> <<>>, Path |-> <<>>, RawQuery |-> <<>>, Header |-> EmptyHeader,
     Body |-> [data |-> <<>>, failsAfter |-> -1], ctxSubject |-> <<>>,
     ctxExtra |-> EmptyHeader]

NoResp == [kind |-> "none", Header |-> EmptyHeader, Data |-> <<>>]

\* The far side of server.Conn.RequestMsg(msg, timeout).  With a responder on
\* the subject, its reply reaches the client delay seconds after the request;
\* elapsed is the time since RequestMsg was called; delivered says a reply
\* reached the client after RequestMsg had given up.
NoBus == [responder |-> FALSE, delay |-> 0, elapsed |-> 0, delivered |-> FALSE]
Responder(d) == [responder |-> TRUE, delay |-> d, elapsed |-> 0, delivered |-> FALSE]

\* the variant of the handler that returned the error of NatsMsgForHttpRequest
\* to the host without writing a status
BeforeRequestMsg_ReturnsErr(req) ==
    LET t == NatsMsgForHttpRequest(req, req.ctxSubject)
        after == [req EXCEPT !.Header = t.rHeader]
    IN  IF p.ServerAlias \notin DOMAIN app.Servers
        THEN [pc |-> "done", ret |-> "errAliasNotFound", w |-> NewResponseWriter,
              r |-> req, msg |-> NoMsg, busCalls |-> <<>>]
        ELSE IF t.err
        THEN [pc |-> "done", ret |-> "errSubject", w |-> NewResponseWriter,
              r |-> after, msg |-> NoMsg, busCalls |-> <<>>]
        ELSE [pc |-> "requesting", ret |-> "none", w |-> NewResponseWriter,
              r |-> after, msg |-> t.msg,
              busCalls |-> <<[subject |-> t.msg.Subject, timeout |-> p.Timeout.val]>>]

\* a handler that sends the status line before it asks the bus
BeforeRequestMsg_StatusFirst(req) ==
    LET t == NatsMsgForHttpRequest(req, req.ctxSubject)
        after == [req EXCEPT !.Header = t.rHeader]
    IN  IF p.ServerAlias \notin DOMAIN app.Servers
        THEN [pc |-> "done", ret |-> "errAliasNotFound", w |-> NewResponseWriter,
              r |-> req, msg |-> NoMsg, busCalls |-> <<>>]
        ELSE IF t.err
        THEN [pc |-> "done", ret |-> "nil",
              w |-> WriteHeader(NewResponseWriter, StatusBadRequest),
              r |-> after, msg |-> NoMsg, busCalls |-> <<>>]
        ELSE [pc |-> "requesting", ret |-> "none",
              w |-> WriteHeader(NewResponseWriter, StatusOK),
              r |-> after, msg |-> t.msg,
              busCalls |-> <<[subject |-> t.msg.Subject, timeout |-> p.Timeout.val]>>]

\* ServeHTTP up to the call of server.Conn.RequestMsg: the server of the alias
\* is looked up, the message built (an error of NatsMsgForHttpRequest is
\* answered with 400 and nil), the timeout checked, the request issued.
\* req.ctxSubject is what the replacer of the request context makes of
\* p.Subject.  Gives the variables of the call as the steps leave them.
BeforeRequestMsg(req) ==
    LET t == NatsMsgForHttpRequest(req, req.ctxSubject)
        after == [req EXCEPT !.Header = t.rHeader]
    IN  IF p.ServerAlias \notin DOMAIN app.Servers
        THEN [pc |-> "done", ret |-> "errAliasNotFound", w |-> NewResponseWriter,
              r |-> req, msg |-> NoMsg, busCalls |-> <<>>]
        ELSE IF t.err
        THEN [pc |-> "done", ret |-> "nil",
              w |-> WriteHeader(NewResponseWriter, StatusBadRequest),
              r |-> after, msg |-> NoMsg, busCalls |-> <<>>]
        ELSE IF p.Timeout.isNil
        THEN [pc |-> "done", ret |-> "ErrTimeoutNotInitialized", w |-> NewResponseWriter,
              r |-> after, msg |-> t.msg, busCalls |-> <<>>]
        ELSE [pc |-> "requesting", ret |-> "none", w |-> NewResponseWriter,
              r |-> after, msg |-> t.msg,
              busCalls |-> <<[subject |-> t.msg.Subject, timeout |-> p.Timeout.val]>>]

\* the host hands a request to the handler of a provisioned route
ServeHTTP(requests) ==
    /\ p.provisioned
    /\ pc = "idle"
    /\ \E req \in requests :
        LET s == BeforeRequestMsg(req)
        IN  /\ bus' \in (IF s.pc = "requesting"
                         THEN {NoBus} \cup {Responder(d) : d \in 1..MaxDelay}
                         ELSE {NoBus})
            /\ rIn' = req
            /\ resp' = NoResp
            /\ pc' = s.pc
            /\ ret' = s.ret
            /\ w' = s.w
            /\ r' = s.r
            /\ msg' = s.msg
            /\ busCalls' = s.busCalls
    /\ UNCHANGED <<config, app, p, logVars, natsVars, onceVars>>

\* the variant of the handler that returned the no-responders error to the host
ServeHTTP_NoResponders_ReturnsErr ==
    /\ pc = "requesting"
    /\ ~bus.responder
    /\ resp' = [NoResp EXCEPT !.kind = "noResponders"]
    /\ w' = WriteHeader(w, StatusNotFound)
    /\ ret' = "errNoResponders"
    /\ pc' = "done"
    /\ UNCHANGED <<config, app, p, r, rIn, msg, busCalls, bus, logVars, natsVars, onceVars>>

\* RequestMsg returns nats.ErrNoResponders
ServeHTTP_NoResponders ==
    /\ pc = "requesting"
    /\ ~bus.responder
    /\ resp' = [NoResp EXCEPT !.kind = "noResponders"]
    /\ w' = WriteHeader(w, StatusNotFound)
    /\ ret' = "nil"
    /\ pc' = "done"
    /\ UNCHANGED <<config, app, p, r, rIn, msg, busCalls, bus, logVars, natsVars, onceVars>>

\* The time RequestMsg has been waiting advances by one second: while it waits,
\* not past the moment the reply arrives or its timer fires; after it gave up
\* on a responder, until that responder's reply arrives.
Tick ==
    /\ bus.elapsed < MaxDelay
    /\ \/ /\ pc = "requesting"
          /\ bus.elapsed < busCalls[1].timeout
          /\ bus.responder => bus.elapsed < bus.delay
       \/ /\ pc = "done" /\ resp.kind = "timeout"
          /\ bus.responder /\ ~bus.delivered /\ bus.elapsed < bus.delay
    /\ bus' = [bus EXCEPT !.elapsed = @ + 1]
    /\ UNCHANGED <<config, app, p, pc, r, rIn, msg, busCalls, resp, w, ret, logVars, natsVars, onceVars>>

\* a handler that has no branch for nats.ErrTimeout and answers it as any error
ServeHTTP_Timeout_AsAnyError ==
    /\ pc = "requesting"
    /\ bus.elapsed >= busCalls[1].timeout
    /\ resp' = [NoResp EXCEPT !.kind = "timeout"]
    /\ w' = WriteHeader(w, StatusInternalServerError)
    /\ ret' = "errRequest"
    /\ pc' = "done"
    /\ UNCHANGED <<config, app, p, r, rIn, msg, busCalls, bus, logVars, natsVars, onceVars>>

\* RequestMsg returns nats.ErrTimeout: its timer of *p.Timeout has fired (at
\* once when the timeout is zero or negative)
ServeHTTP_Timeout ==
    /\ pc = "requesting"
    /\ bus.elapsed >= busCalls[1].timeout
    /\ resp' = [NoResp EXCEPT !.kind = "timeout"]
    /\ w' = WriteHeader(w, StatusGatewayTimeout)
    /\ ret' = "nil"
    /\ pc' = "done"
    /\ UNCHANGED <<config, app, p, r, rIn, msg, busCalls, bus, logVars, natsVars, onceVars>>

\* RequestMsg returns any other error
ServeHTTP_BusError ==
    /\ pc = "requesting"
    /\ resp' = [NoResp EXCEPT !.kind = "error"]
    /\ w' = WriteHeader(w, StatusInternalServerError)
    /\ ret' = "errRequest"
    /\ pc' = "done"
    /\ UNCHANGED <<config, app, p, r, rIn, msg, busCalls, bus, logVars, natsVars, onceVars>>

\* the condition under which the loop over resp.Header skips a header
IsStripped(k) ==
    \/ k = HdrNatsServiceError
    \/ k = HdrNatsServiceErrorCode
    \/ k = HdrNatsServiceErrorLower
    \/ k = HdrNatsServiceErrorCodeLower
    \/ k = HdrContentLength

\* the inner loop: every value of one reply header is added to w.Header()
RECURSIVE AddValues(_, _, _)
AddValues(rw, k, values) ==
    IF Len(values) = 0 THEN rw
    ELSE AddValues(WriterHeaderAdd(rw, k, values[1]), k, Tail(values))

\* the loop over resp.Header, visiting the keys in the given order
RECURSIVE CopyHeaders(_, _, _)
CopyHeaders(rw, h, order) ==
    IF Len(order) = 0 THEN rw
    ELSE CopyHeaders(IF IsStripped(order[1]) THEN rw
                     ELSE AddValues(rw, order[1], h[order[1]]),
                     h, Tail(order))

\* a test that forgets the header may be missing
OverridesStatus_EmptyNotExempt(code) == code # Code200

\* whether the value of Nats-Service-Error-Code asks for a status of its own
OverridesStatus(code) == code # EmptyString /\ code # Code200

\* a handler that does not return after it answered a malformed code with 500
Project_FallsThrough(rw, reply, order, connOk) ==
    LET rw1 == CopyHeaders(rw, reply.Header, order)
        code == NatsHeaderGet(reply.Header, HdrNatsServiceErrorCode)
        parsed == Atoi(code)
        rw2 == IF OverridesStatus(code)
               THEN (IF parsed.err THEN WriteHeader(rw1, StatusInternalServerError)
                     ELSE WriteHeader(rw1, parsed.val))
               ELSE rw1
        wr == Write(rw2, reply.Data, connOk)
    IN  IF rw2.panicked
        THEN [w |-> rw2, ret |-> "panic"]
        ELSE [w |-> wr.w, ret |-> IF wr.err THEN "errWrite" ELSE "nil"]

\* ServeHTTP from the return of RequestMsg with a reply to its own return
Project(rw, reply, order, connOk) ==
    LET rw1 == CopyHeaders(rw, reply.Header, order)
        code == NatsHeaderGet(reply.Header, HdrNatsServiceErrorCode)
        parsed == Atoi(code)
        rw2 == IF OverridesStatus(code) THEN WriteHeader(rw1, parsed.val) ELSE rw1
        wr == Write(rw2, reply.Data, connOk)
    IN  IF OverridesStatus(code) /\ parsed.err
        THEN [w |-> WriteHeader(rw1, StatusInternalServerError), ret |-> "errStatus"]
        ELSE IF rw2.panicked
        THEN [w |-> rw2, ret |-> "panic"]
        ELSE [w |-> wr.w, ret |-> IF wr.err THEN "errWrite" ELSE "nil"]

\* The reply of the responder arrives after RequestMsg returned ErrTimeout:
\* ServeHTTP has returned, nothing of the call is left to take it.
LateReply ==
    /\ pc = "done" /\ resp.kind = "timeout"
    /\ bus.responder /\ ~bus.delivered /\ bus.elapsed = bus.delay
    /\ bus' = [bus EXCEPT !.delivered = TRUE]
    /\ UNCHANGED <<config, app, p, pc, r, rIn, msg, busCalls, resp, w, ret, logVars, natsVars, onceVars>>

\* RequestMsg returns a reply: it arrived before the timer fired
ServeHTTP_Reply(replies) ==
    /\ pc = "requesting"
    /\ bus.responder /\ bus.elapsed = bus.delay
    /\ \E reply \in replies, connOk \in BOOLEAN :
        \E order \in Orders(DOMAIN reply.Header) :
            LET out == Project(w, reply, order, connOk)
            IN  /\ resp' = [kind |-> "reply", Header |-> reply.Header, Data |-> reply.Data]
                /\ w' = out.w
                /\ ret' = out.ret
                /\ pc' = "done"
    /\ UNCHANGED <<config, app, p, r, rIn, msg, busCalls, bus, logVars, natsVars, onceVars>>

\* a handler with a pointer receiver that clears its timeout when a call ends
CallEnds_DropsTimeout ==
    /\ pc = "done"
    /\ pc' = "idle"
    /\ rIn' = NoRequest
    /\ r' = NoRequest
    /\ msg' = NoMsg
    /\ busCalls' = <<>>
    /\ resp' = NoResp
    /\ w' = NewResponseWriter
    /\ ret' = "none"
    /\ bus' = NoBus
    /\ p' = [p EXCEPT !.Timeout = NilDuration]
    /\ UNCHANGED <<config, app, logVars, natsVars, onceVars>>

\* ServeHTTP has returned and the host has finished the response: the values
\* of the call are gone and the handler takes the next request
CallEnds ==
    /\ pc = "done"
    /\ pc' = "idle"
    /\ rIn' = NoRequest
    /\ r' = NoRequest
    /\ msg' = NoMsg
    /\ busCalls' = <<>>
    /\ resp' = NoResp
    /\ w' = NewResponseWriter
    /\ ret' = "none"
    /\ bus' = NoBus
    /\ UNCHANGED <<config, app, p, logVars, natsVars, onceVars>>

\* NatsMsgForHttpRequest called on its own, as any caller of package common may
Translate ==
    /\ pc = "input"
    /\ LET t == NatsMsgForHttpRequest(r, r.ctxSubject)
       IN  /\ msg' = t.msg
           /\ r' = [r EXCEPT !.Header = t.rHeader]
           /\ ret' = IF t.err THEN "errSubject" ELSE "nil"
    /\ pc' = "translated"
    /\ UNCHANGED <<config, app, p, rIn, busCalls, resp, w, bus, logVars, natsVars, onceVars>>

---------------------------------------------------------------------------
(* common.RedactHeaders and the list it reads from LOGGER_REDACT_HEADERS *)

\* the value that replaces every value of a redacted header
Mask == <<"*", "*", "*">>

WhiteSpace == {" ", "\t", "\n", "\r"}

\* strings.Split(s, ","): the pieces between the commas, empty ones included
RECURSIVE SplitComma(_)
SplitComma(s) ==
    IF \A i \in 1..Len(s) : s[i] # ","
    THEN <<s>>
    ELSE LET i == CHOOSE j \in 1..Len(s) :
                      s[j] = "," /\ \A k \in 1..(j - 1) : s[k] # ","
         IN  <<SubSeq(s, 1, i - 1)>> \o SplitComma(SubSeq(s, i + 1, Len(s)))

\* strings.TrimSpace
RECURSIVE TrimSpace(_)
TrimSpace(s) ==
    IF Len(s) = 0 THEN s
    ELSE IF s[1] \in WhiteSpace THEN TrimSpace(Tail(s))
    ELSE IF s[Len(s)] \in WhiteSpace THEN TrimSpace(SubSeq(s, 1, Len(s) - 1))
    ELSE s

\* the loop over the parts: a part that is not empty once trimmed is appended
\* in lower case
RECURSIVE LowerTrimmedParts(_)
LowerTrimmedParts(parts) ==
    IF Len(parts) = 0 THEN <<>>
    ELSE LET trimmed == TrimSpace(parts[1])
         IN  (IF trimmed # <<>> THEN <<ToLower(trimmed)>> ELSE <<>>)
                 \o LowerTrimmedParts(Tail(parts))

\* the function redactHeadersOnce.Do runs, given os.Getenv("LOGGER_REDACT_HEADERS")
ParseRedactList(envValue) ==
    IF envValue = <<>> THEN <<>> ELSE LowerTrimmedParts(SplitComma(envValue))

\* getRedactHeadersList: the list is computed by the first call and kept
getRedactHeadersList ==
    IF redactHeadersOnce THEN redactHeadersList
    ELSE ParseRedactList(env.LOGGER_REDACT_HEADERS)

\* a comparison that forgets to fold the case of the header name
shouldRedact_CaseSensitive(headerName, redactList) ==
    \E i \in 1..Len(redactList) : headerName = redactList[i]

\* shouldRedact, given the list getRedactHeadersList returns
shouldRedact(headerName, redactList) ==
    \E i \in 1..Len(redactList) : ToLower(headerName) = redactList[i]

\* RedactHeaders, given that list
RedactHeaders(hdrs, redactList) ==
    IF hdrs.isNil THEN NilHeader
    ELSE [isNil |-> FALSE,
          h |-> [name \in DOMAIN hdrs.h |->
                    IF shouldRedact(name, redactList)
                    THEN [i \in 1..Len(hdrs.h[name]) |-> Mask]
                    ELSE hdrs.h[name]]]

\* whether RedactHeaders asks for the list: it does so once for every name
\* of the mapping, so not at all for nil and for a mapping without names
NeedsList(hdrs) == ~hdrs.isNil /\ DOMAIN hdrs.h # {}

NoCall == [caller |-> 0, over |-> FALSE, envs |-> {}]

\* the record of the first call, when caller c begins a call
NoteBegin(rec, c, over) ==
    IF rec.caller = 0
    THEN [caller |-> c, over |-> over, envs |-> {env.LOGGER_REDACT_HEADERS}]
    ELSE rec

\* ... and when the call of caller c has its result
NoteEnd(rec, c) == IF rec.caller = c THEN [rec EXCEPT !.over = TRUE] ELSE rec

\* a caller logs a header mapping through RedactHeaders, with no other call
\* running
CallRedactHeaders(inputs) ==
    /\ pc = "log"
    /\ \E hdrs \in inputs :
        /\ logHeaders' = hdrs
        /\ logResult' = RedactHeaders(hdrs, getRedactHeadersList)
        /\ redactHeadersOnce' = (redactHeadersOnce \/ NeedsList(hdrs))
        /\ redactHeadersList' = IF NeedsList(hdrs) THEN getRedactHeadersList
                                ELSE redactHeadersList
        /\ computed' = IF NeedsList(hdrs) /\ ~redactHeadersOnce THEN computed + 1
                       ELSE computed
        /\ onceEnv' = IF NeedsList(hdrs) /\ ~redactHeadersOnce
                      THEN env.LOGGER_REDACT_HEADERS ELSE onceEnv
        /\ first' = NoteBegin(first, 1, TRUE)
        /\ need' = IF NeedsList(hdrs) THEN NoteBegin(need, 1, TRUE) ELSE need
    /\ pc' = "logged"
    /\ UNCHANGED <<config, app, p, r, rIn, msg, busCalls, resp, w, ret, bus, env, natsVars,
                   calls, onceRunning, resets>>

\* The same call among concurrent callers, in the steps at which callers can
\* meet.  A caller begins: for nil and for a mapping without names the result
\* is there at once, any other call goes on to ask for the list.
Idle == [pc |-> "idle", hdrs |-> NilHeader, result |-> NilHeader]

RedactBegin(c, inputs) ==
    /\ calls[c].pc = "idle"
    /\ \E hdrs \in inputs :
        /\ calls' = [calls EXCEPT ![c] =
                        IF NeedsList(hdrs)
                        THEN [pc |-> "do", hdrs |-> hdrs, result |-> NilHeader]
                        ELSE [pc |-> "done", hdrs |-> hdrs,
                              result |-> RedactHeaders(hdrs, <<>>)]]
        /\ first' = NoteBegin(first, c, ~NeedsList(hdrs))
        /\ need' = IF NeedsList(hdrs) THEN NoteBegin(need, c, FALSE) ELSE need
    /\ UNCHANGED <<config, app, p, pc, r, rIn, msg, busCalls, resp, w, ret, bus, logVars,
                   natsVars, onceRunning, onceEnv, computed, resets>>

\* a guard that lets every caller that finds the list missing compute it
OnceDo_NoMutex(c) ==
    /\ calls[c].pc = "do"
    /\ IF redactHeadersOnce
       THEN /\ calls' = [calls EXCEPT ![c].pc = "done",
                                      ![c].result = RedactHeaders(calls[c].hdrs,
                                                                  redactHeadersList)]
            /\ first' = NoteEnd(first, c)
            /\ need' = NoteEnd(need, c)
            /\ UNCHANGED <<onceRunning, onceEnv, computed>>
       ELSE /\ onceRunning' = c
            /\ onceEnv' = env.LOGGER_REDACT_HEADERS
            /\ computed' = computed + 1
            /\ calls' = [calls EXCEPT ![c].pc = "computing"]
            /\ UNCHANGED <<first, need>>
    /\ UNCHANGED <<config, app, p, pc, r, rIn, msg, busCalls, resp, w, ret, bus, logVars,
                   natsVars, resets>>

\* redactHeadersOnce.Do: when the function has run, the caller goes on with
\* the list as it is; when another caller is inside, it waits; else it enters
\* and the function reads LOGGER_REDACT_HEADERS
OnceDo(c) ==
    /\ calls[c].pc = "do"
    /\ IF redactHeadersOnce
       THEN /\ calls' = [calls EXCEPT ![c].pc = "done",
                                      ![c].result = RedactHeaders(calls[c].hdrs,
                                                                  redactHeadersList)]
            /\ first' = NoteEnd(first, c)
            /\ need' = NoteEnd(need, c)
            /\ UNCHANGED <<onceRunning, onceEnv, computed>>
       ELSE /\ onceRunning = 0
            /\ onceRunning' = c
            /\ onceEnv' = env.LOGGER_REDACT_HEADERS
            /\ computed' = computed + 1
            /\ calls' = [calls EXCEPT ![c].pc = "computing"]
            /\ UNCHANGED <<first, need>>
    /\ UNCHANGED <<config, app, p, pc, r, rIn, msg, busCalls, resp, w, ret, bus, logVars,
                   natsVars, resets>>

\* the function of redactHeadersOnce.Do stores the list it made of the value
\* it read and returns; the Once is done, and the caller goes on with the list
OnceStore(c) ==
    /\ calls[c].pc = "computing"
    /\ redactHeadersList' = ParseRedactList(onceEnv)
    /\ redactHeadersOnce' = TRUE
    /\ onceRunning' = IF onceRunning = c THEN 0 ELSE onceRunning
    /\ calls' = [calls EXCEPT ![c].pc = "done",
                              ![c].result = RedactHeaders(calls[c].hdrs,
                                                          ParseRedactList(onceEnv))]
    /\ first' = NoteEnd(first, c)
    /\ need' = NoteEnd(need, c)
    /\ UNCHANGED <<config, app, p, pc, r, rIn, msg, busCalls, resp, w, ret, bus, natsVars,
                   env, logHeaders, logResult, onceEnv, computed, resets>>

\* the caller has taken its result
RedactReturn(c) ==
    /\ calls[c].pc = "done"
    /\ calls' = [calls EXCEPT ![c] = Idle]
    /\ UNCHANGED <<config, app, p, pc, r, rIn, msg, busCalls, resp, w, ret, bus, logVars,
                   natsVars, onceRunning, onceEnv, computed, first, need, resets>>

\* the process changes LOGGER_REDACT_HEADERS (os.Setenv)
Setenv(values) ==
    /\ \E v \in values :
        /\ v # env.LOGGER_REDACT_HEADERS
        /\ env' = [env EXCEPT !.LOGGER_REDACT_HEADERS = v]
        /\ first' = IF first.caller # 0 /\ ~first.over
                    THEN [first EXCEPT !.envs = @ \cup {v}] ELSE first
        /\ need' = IF need.caller # 0 /\ ~need.over
                   THEN [need EXCEPT !.envs = @ \cup {v}] ELSE need
    /\ UNCHANGED <<config, app, p, pc, r, rIn, msg, busCalls, resp, w, ret, bus, natsVars,
                   redactHeadersOnce, redactHeadersList, logHeaders, logResult,
                   calls, onceRunning, onceEnv, computed, resets>>

\* resetRedactHeadersCache, which the tests call between two cases, when no
\* call of RedactHeaders is running
resetRedactHeadersCache ==
    /\ resets < MaxResets
    /\ \A c \in DOMAIN calls : calls[c].pc = "idle"
    /\ redactHeadersList' = <<>>
    /\ redactHeadersOnce' = FALSE
    /\ computed' = 0
    /\ first' = NoCall
    /\ need' = NoCall
    /\ resets' = resets + 1
    /\ UNCHANGED <<config, app, p, pc, r, rIn, msg, busCalls, resp, w, ret, bus, natsVars,
                   env, logHeaders, logResult, calls, onceRunning, onceEnv>>

---------------------------------------------------------------------------
(* NatsBridgeApp.UnmarshalCaddyfile, Start and Stop *)

\* the body of the switch: one subdirective of a nats block applied to the
\* server entry; an argument that does not parse and an unknown name are errors
ApplyDirective(server, d) ==
    IF d.name = "url"
    THEN [err |-> FALSE, server |-> [server EXCEPT !.NatsUrl = d.arg]]
    ELSE IF d.name = "userCredentialFile"
    THEN [err |-> FALSE, server |-> [server EXCEPT !.UserCredentialFile = d.arg]]
    ELSE IF d.name = "nkeyCredentialFile"
    THEN [err |-> FALSE, server |-> [server EXCEPT !.NkeyCredentialFile = d.arg]]
    ELSE IF d.name = "subscribe"
    THEN [err |-> FALSE, server |-> [server EXCEPT !.HandlersRaw = Append(@, d.arg)]]
    ELSE IF d.name = "defaultTimeout"
    THEN LET t == ParseDuration(d.arg)
         IN  IF t.err THEN [err |-> TRUE, server |-> server]
             ELSE [err |-> FALSE,
                   server |-> [server EXCEPT !.DefaultTimeout = [isNil |-> FALSE, val |-> t.val]]]
    ELSE [err |-> TRUE, server |-> server]

\* the loop over the subdirectives of one block: it returns at the first error,
\* and what the earlier subdirectives wrote into the entry stays written
RECURSIVE ApplyDirectives(_, _)
ApplyDirectives(server, ds) ==
    IF Len(ds) = 0 THEN [err |-> FALSE, server |-> server]
    ELSE LET one == ApplyDirective(server, ds[1])
         IN  IF one.err THEN one ELSE ApplyDirectives(one.server, Tail(ds))

\* the alias a block names, "default" when it names none
BlockAlias(b) == IF b.alias = "" THEN "default" ELSE b.alias

\* a parser that makes a new entry for every block
ParseBlock_NewEntry(servers, b) ==
    LET out == ApplyDirectives(NewServer, b.directives)
    IN  [err |-> out.err,
         servers |-> [a \in (DOMAIN servers) \cup {BlockAlias(b)} |->
                         IF a = BlockAlias(b) THEN out.server ELSE servers[a]]]

\* one round of the loop over the blocks: the entry of the alias is looked
\* up, made when the alias has none, and the subdirectives applied to it
ParseBlock(servers, b) ==
    LET server == IF BlockAlias(b) \in DOMAIN servers THEN servers[BlockAlias(b)]
                  ELSE NewServer
        out == ApplyDirectives(server, b.directives)
    IN  [err |-> out.err,
         servers |-> [a \in (DOMAIN servers) \cup {BlockAlias(b)} |->
                         IF a = BlockAlias(b) THEN out.server ELSE servers[a]]]

\* the loop over the blocks
RECURSIVE UnmarshalBlocks(_, _)
UnmarshalBlocks(servers, blocks) ==
    IF Len(blocks) = 0 THEN [err |-> FALSE, servers |-> servers]
    ELSE LET one == ParseBlock(servers, blocks[1])
         IN  IF one.err THEN one ELSE UnmarshalBlocks(one.servers, Tail(blocks))

\* UnmarshalCaddyfile on the app CaddyModule's New made, whose Servers is empty
UnmarshalCaddyfile(files) ==
    /\ lc = "new"
    /\ \E f \in files :
        LET out == UnmarshalBlocks(app.Servers, f)
        IN  /\ caddyfile' = f
            /\ app' = [app EXCEPT !.Servers = out.servers]
            /\ lc' = IF out.err THEN "parseFailed" ELSE "parsed"
            /\ appRet' = IF out.err THEN "errParse" ELSE "nil"
    /\ UNCHANGED <<config, p, pc, r, rIn, msg, busCalls, resp, w, ret, bus, logVars,
                   conns, subs, ops, onceVars>>

\* The calls of Start that can fail are the loading of the NKey seed, the dial
\* and the Subscribe of a handler.  Start returns at the first failure, so one
\* run of Start is told by the first call that fails, if any does.
NoFailure == [alias |-> "", stage |-> "none", handler |-> 0]

\* whether Start loads an NKey for the server
LoadsNkey(server) == server.UserCredentialFile = <<>> /\ server.NkeyCredentialFile # <<>>

StartFailures(servers) ==
    {NoFailure}
    \cup {[alias |-> a, stage |-> "nkey", handler |-> 0] :
            a \in {x \in DOMAIN servers : LoadsNkey(servers[x])}}
    \cup {[alias |-> a, stage |-> "dial", handler |-> 0] : a \in DOMAIN servers}
    \cup UNION {{[alias |-> a, stage |-> "subscribe", handler |-> i] :
                    i \in 1..Len(servers[a].Handlers)} : a \in DOMAIN servers}

\* the loop over server.Handlers from handler i on: handler.Subscribe(server.Conn)
RECURSIVE SubscribeFrom(_, _, _, _)
SubscribeFrom(st, a, i, fail) ==
    IF i > Len(st.servers[a].Handlers) THEN st
    ELSE IF fail = [alias |-> a, stage |-> "subscribe", handler |-> i]
    THEN [st EXCEPT !.ret = "errSubscribe",
                    !.ops = Append(@, [op |-> "subscribe", alias |-> a, handler |-> i,
                                       conn |-> st.servers[a].Conn, ok |-> FALSE])]
    ELSE SubscribeFrom(
            [st EXCEPT !.subs = @ \cup {[alias |-> a, handler |-> i,
                                         conn |-> st.servers[a].Conn]},
                       !.ops = Append(@, [op |-> "subscribe", alias |-> a, handler |-> i,
                                          conn |-> st.servers[a].Conn, ok |-> TRUE])],
            a, i + 1, fail)

\* the loop of Start over app.Servers, visiting the aliases in the given order
RECURSIVE StartFrom(_, _, _)
StartFrom(st, order, fail) ==
    IF Len(order) = 0 THEN [st EXCEPT !.ret = "nil"]
    ELSE LET a == order[1]
             id == Len(st.conns) + 1
             dialed == [st EXCEPT !.servers[a].Conn = id,
                                  !.conns = Append(@, [alias |-> a, open |-> TRUE]),
                                  !.ops = Append(@, [op |-> "dial", alias |-> a,
                                                     handler |-> 0, conn |-> id,
                                                     ok |-> TRUE])]
             subscribed == SubscribeFrom(dialed, a, 1, fail)
         IN  IF fail = [alias |-> a, stage |-> "nkey", handler |-> 0]
             THEN [st EXCEPT !.ret = "errNkey"]
             ELSE IF fail = [alias |-> a, stage |-> "dial", handler |-> 0]
             THEN [st EXCEPT !.ret = "errConnect",
                             !.servers[a].Conn = 0,
                             !.ops = Append(@, [op |-> "dial", alias |-> a, handler |-> 0,
                                                conn |-> 0, ok |-> FALSE])]
             ELSE IF subscribed.ret = "errSubscribe" THEN subscribed
             ELSE StartFrom(subscribed, Tail(order), fail)

\* a Start that logs the failure and tells the host all went well
StartOutcome_ReturnsNil(servers, made, order, fail) ==
    [StartFrom([servers |-> servers, conns |-> made, subs |-> {}, ops |-> <<>>,
                ret |-> "none"], order, fail) EXCEPT !.ret = "nil"]

\* Start, given the order of the loop and the call that fails
StartOutcome(servers, made, order, fail) ==
    StartFrom([servers |-> servers, conns |-> made, subs |-> {}, ops |-> <<>>,
               ret |-> "none"], order, fail)

\* the host starts the provisioned app
Start ==
    /\ app.provisioned
    /\ lc = "parsed"
    /\ \E order \in Orders(DOMAIN app.Servers), fail \in StartFailures(app.Servers) :
        LET out == StartOutcome(app.Servers, conns, order, fail)
        IN  /\ app' = [app EXCEPT !.Servers = out.servers]
            /\ conns' = out.conns
            /\ subs' = out.subs
            /\ ops' = out.ops
            /\ appRet' = out.ret
            /\ lc' = IF out.ret = "nil" THEN "started" ELSE "startFailed"
    /\ UNCHANGED <<config, p, pc, r, rIn, msg, busCalls, resp, w, ret, bus, logVars,
                   caddyfile, onceVars>>

\* the Unsubscribe calls that can fail in Stop, of which the first counts
StopFailures(servers) ==
    {NoFailure}
    \cup UNION {{[alias |-> a, stage |-> "unsubscribe", handler |-> i] :
                    i \in 1..Len(servers[a].Handlers)} : a \in DOMAIN servers}

\* the loop over server.Handlers in Stop from handler i on
RECURSIVE UnsubscribeFrom(_, _, _, _)
UnsubscribeFrom(st, a, i, fail) ==
    IF i > Len(st.servers[a].Handlers) THEN st
    ELSE IF fail = [alias |-> a, stage |-> "unsubscribe", handler |-> i]
    THEN [st EXCEPT !.ret = "errUnsubscribe",
                    !.ops = Append(@, [op |-> "unsubscribe", alias |-> a, handler |-> i,
                                       conn |-> st.servers[a].Conn, ok |-> FALSE])]
    ELSE UnsubscribeFrom(
            [st EXCEPT !.subs = @ \ {[alias |-> a, handler |-> i,
                                      conn |-> st.servers[a].Conn]},
                       !.ops = Append(@, [op |-> "unsubscribe", alias |-> a, handler |-> i,
                                          conn |-> st.servers[a].Conn, ok |-> TRUE])],
            a, i + 1, fail)

\* the loop of Stop over app.Servers that unsubscribes
RECURSIVE UnsubscribeAll(_, _, _)
UnsubscribeAll(st, order, fail) ==
    IF Len(order) = 0 THEN [st EXCEPT !.ret = "nil"]
    ELSE LET one == UnsubscribeFrom(st, order[1], 1, fail)
         IN  IF one.ret = "errUnsubscribe" THEN one
             ELSE UnsubscribeAll(one, Tail(order), fail)

\* the deferred loop of Stop: server.Conn.Close() for every server; closing a
\* connection ends the subscriptions that are left on it
RECURSIVE CloseAll(_, _)
CloseAll(st, order) ==
    IF Len(order) = 0 THEN st
    ELSE LET a == order[1]
             id == st.servers[a].Conn
         IN  CloseAll([st EXCEPT !.conns = [c \in DOMAIN st.conns |->
                                                IF c = id THEN [st.conns[c] EXCEPT !.open = FALSE]
                                                ELSE st.conns[c]],
                                 !.subs = {x \in @ : x.conn # id},
                                 !.ops = Append(@, [op |-> "close", alias |-> a,
                                                    handler |-> 0, conn |-> id,
                                                    ok |-> TRUE])],
                      Tail(order))

\* a Stop whose closing loop is not deferred and is skipped by the early return
StopOutcome_NoDefer(servers, made, inForce, order, closeOrder, fail) ==
    LET unsubscribed == UnsubscribeAll([servers |-> servers, conns |-> made,
                                        subs |-> inForce, ops |-> <<>>, ret |-> "none"],
                                       order, fail)
    IN  IF unsubscribed.ret = "errUnsubscribe" THEN unsubscribed
        ELSE CloseAll(unsubscribed, closeOrder)

\* Stop, given the orders of its two loops and the call that fails
StopOutcome(servers, made, inForce, order, closeOrder, fail) ==
    CloseAll(UnsubscribeAll([servers |-> servers, conns |-> made, subs |-> inForce,
                             ops |-> <<>>, ret |-> "none"], order, fail),
             closeOrder)

\* the host stops the app it started
Stop ==
    /\ lc = "started"
    /\ \E order \in Orders(DOMAIN app.Servers), closeOrder \in Orders(DOMAIN app.Servers),
          fail \in StopFailures(app.Servers) :
        LET out == StopOutcome(app.Servers, conns, subs, order, closeOrder, fail)
        IN  /\ app' = [app EXCEPT !.Servers = out.servers]
            /\ conns' = out.conns
            /\ subs' = out.subs
            /\ ops' = out.ops
            /\ appRet' = out.ret
    /\ lc' = "stopped"
    /\ UNCHANGED <<config, p, pc, r, rIn, msg, busCalls, resp, w, ret, bus, logVars,
                   caddyfile, onceVars>>

---------------------------------------------------------------------------
(* The inputs *)

Aliases == {"default", "other"}
TimeoutChoices == {-1, 0, 1, 5}
PtrChoices == {NilDuration} \cup {PtrTo(d) : d \in TimeoutChoices}

\* every configuration of at most two servers and one nats_request route
AllConfigs ==
    {[Servers |-> servers, routeTimeout |-> t, ServerAlias |-> a] :
        servers \in UNION {[S -> [DefaultTimeout : PtrChoices]] : S \in SUBSET Aliases},
        t \in PtrChoices, a \in Aliases}

ServeConfigs ==
    {[Servers |-> [a \in {"default"} |-> [DefaultTimeout |-> NilDuration]],
      routeTimeout |-> t, ServerAlias |-> "default"] : t \in {NilDuration, PtrTo(1)}}

SubjectAlphabet == {"a", ".", ">", "$", " ", "\t"}
Subjects == SeqsUpTo(SubjectAlphabet, MaxSubjectLen)

Bodies == {[data |-> <<>>, failsAfter |-> -1],
           [data |-> ValOk, failsAfter |-> -1],
           [data |-> ValOk, failsAfter |-> 1]}

ExtraHeaderChoices == {EmptyHeader, [k \in {HdrLargeBodyId} |-> ValTwo]}

\* request headers as a caller may hold them: lines over these names and values
ReqLinePairs == {HdrMethod, HdrMethodCanonical, HdrCustomHeader} \X {ValDELETE}
ReqHeaders == {HeaderFromLines(l) : l \in SeqsUpTo(ReqLinePairs, MaxReqLines)}

TranslateRequests ==
    {[Method |-> ValGET, Path |-> ValPath, RawQuery |-> q, Header |-> h, Body |-> b,
      ctxSubject |-> s, ctxExtra |-> e] :
        q \in {EmptyString, ValQuery}, h \in ReqHeaders, b \in Bodies,
        s \in Subjects, e \in ExtraHeaderChoices}

ServeSubjects == {<<"a", ".", "b">>, <<"a", ".", "$">>, <<">">>, <<"a", " ", "b">>}

ServeRequests ==
    {[Method |-> ValGET, Path |-> ValPath, RawQuery |-> EmptyString, Header |-> h,
      Body |-> b, ctxSubject |-> s, ctxExtra |-> EmptyHeader] :
        h \in {EmptyHeader, HeaderFromLines(<<<<HdrCustomHeader, ValMyValue>>>>)},
        b \in {[data |-> ValOk, failsAfter |-> -1], [data |-> ValOk, failsAfter |-> 1]},
        s \in ServeSubjects}

\* reply headers as a responder may send them
CodeValues == {Code200, Code422, Code500, Code0, CodeAbc, EmptyString}
ReplyLinePairs ==
    ({HdrNatsServiceErrorCode} \X CodeValues)
    \cup ({HdrNatsServiceErrorCodeLower} \X {Code422, CodeAbc})
    \cup ({HdrNatsServiceErrorCodeMixed} \X {Code200, Code422})
    \cup ({HdrNatsServiceError, HdrNatsServiceErrorLower, HdrNatsServiceErrorUpper,
           HdrContentLength, HdrContentLengthLower} \X {ValTwo})
    \cup ({HdrRespHeader} \X {ValV1, ValV2})
    \cup ({HdrRespHeaderLower} \X {ValV1})
ReplyHeaders == {HeaderFromLines(l) : l \in SeqsUpTo(ReplyLinePairs, MaxReplyLines)}
Replies == {[Header |-> h, Data |-> d] : h \in ReplyHeaders, d \in {EmptyString, ValOk}}

LifecycleRequests ==
    {[Method |-> ValGET, Path |-> ValPath, RawQuery |-> EmptyString,
      Header |-> EmptyHeader, Body |-> [data |-> <<>>, failsAfter |-> -1],
      ctxSubject |-> s, ctxExtra |-> EmptyHeader] : s \in {<<"a">>, <<"$">>}}
LifecycleReplies == {[Header |-> EmptyHeader, Data |-> ValOk]}

\* the environment with no variable set
NoEnv == [LOGGER_REDACT_HEADERS |-> EmptyString, NATS_REQUEST_DEFAULT_TIMEOUT |-> EmptyString]

\* values an operator may give NATS_REQUEST_DEFAULT_TIMEOUT
TimeoutEnvs ==
    {[NoEnv EXCEPT !.NATS_REQUEST_DEFAULT_TIMEOUT = v] : v \in {EmptyString, Val30s, ValInvalid}}

\* LOGGER_REDACT_HEADERS as an operator may write it: names separated by
\* commas, a name padded with spaces or not, an entry left empty
RedactEntries ==
    [name : {HdrAuthorization, HdrAuthorizationLower, HdrXApiKey, EmptyString},
     padded : BOOLEAN]
RedactLists == SeqsUpTo(RedactEntries, MaxRedactEntries)

EntryText(e) == IF e.padded THEN <<" ">> \o e.name \o <<" ">> ELSE e.name

RECURSIVE JoinComma(_)
JoinComma(l) ==
    IF Len(l) = 0 THEN <<>>
    ELSE IF Len(l) = 1 THEN EntryText(l[1])
    ELSE EntryText(l[1]) \o <<",">> \o JoinComma(Tail(l))

RedactEnvs == {[NoEnv EXCEPT !.LOGGER_REDACT_HEADERS = JoinComma(l)] : l \in RedactLists}

\* header mappings handed to RedactHeaders: nil, empty, and mappings over a
\* few names with no, one or two values each
LogHeaderNames == {HdrAuthorization, HdrAuthorizationUpper, HdrCustomHeader}
LogValueLists == {<<>>, <<ValV1>>, <<ValV1, ValV2>>}
LogHeaders ==
    {NilHeader} \cup
    {[isNil |-> FALSE, h |-> f] :
        f \in UNION {[S -> LogValueLists] : S \in SUBSET LogHeaderNames}}

\* the goroutines that log headers
Callers == 1..MaxCallers

\* values the process gives LOGGER_REDACT_HEADERS while it runs
OnceEnvValues == {EmptyString, HdrAuthorizationLower, HdrXApiKey}

\* the mappings they log: nil, one without names, one with a name
OnceHeaders ==
    {NilHeader, [isNil |-> FALSE, h |-> EmptyHeader],
     [isNil |-> FALSE, h |-> [k \in {HdrAuthorization} |-> <<ValV1>>]]}

\* the configuration of a host that has parsed no nats block yet
EmptyConfig ==
    [Servers |-> [a \in {} |-> [DefaultTimeout |-> NilDuration]],
     routeTimeout |-> NilDuration, ServerAlias |-> "default"]

\* the subdirectives of a nats block: none, a URL with a handler, a second
\* URL with an NKey file and a handler, a credentials file with a timeout, a
\* handler followed by a subdirective the parser does not know
DirectiveLists ==
    {<<>>,
     <<[name |-> "url", arg |-> UrlA], [name |-> "subscribe", arg |-> SubjectS1]>>,
     <<[name |-> "url", arg |-> UrlB], [name |-> "nkeyCredentialFile", arg |-> FileNkey],
       [name |-> "subscribe", arg |-> SubjectS2]>>,
     <<[name |-> "userCredentialFile", arg |-> FileCreds],
       [name |-> "defaultTimeout", arg |-> Val30s]>>,
     <<[name |-> "subscribe", arg |-> SubjectS1], [name |-> "bogus", arg |-> EmptyString]>>}

\* nats blocks, with no alias, with the alias "other", and one that spells
\* the default alias out
CaddyfileBlocks ==
    {[alias |-> a, directives |-> ds] : a \in {"", "other"}, ds \in DirectiveLists}
    \cup {[alias |-> "default", directives |-> ds] :
            ds \in {<<[name |-> "defaultTimeout", arg |-> ValInvalid]>>,
                    <<[name |-> "url", arg |-> UrlB]>>}}

Caddyfiles == SeqsUpTo(CaddyfileBlocks, MaxBlocks)

---------------------------------------------------------------------------
(* The specifications *)

InitWith(configs, position, requests) ==
    /\ config \in configs
    /\ app = [Servers |-> [a \in DOMAIN config.Servers |->
                                [NewServer EXCEPT !.DefaultTimeout =
                                                      config.Servers[a].DefaultTimeout]],
              provisioned |-> FALSE]
    /\ p = [Timeout |-> config.routeTimeout, ServerAlias |-> config.ServerAlias,
            provisioned |-> FALSE, provisionErr |-> FALSE]
    /\ pc = position
    /\ rIn \in requests
    /\ r = rIn
    /\ msg = NoMsg
    /\ busCalls = <<>>
    /\ resp = NoResp
    /\ w = NewResponseWriter
    /\ ret = "none"
    /\ bus = NoBus
    /\ redactHeadersOnce = FALSE
    /\ redactHeadersList = <<>>
    /\ logHeaders = NilHeader
    /\ logResult = NilHeader
    /\ caddyfile = <<>>
    /\ conns = <<>>
    /\ subs = {}
    /\ ops = <<>>
    /\ appRet = "none"
    /\ calls = [c \in Callers |-> Idle]
    /\ onceRunning = 0
    /\ onceEnv = <<>>
    /\ computed = 0
    /\ first = NoCall
    /\ need = NoCall
    /\ resets = 0

\* one route on one server, every request and every reply
Init == InitWith(ServeConfigs, "idle", {NoRequest}) /\ env = NoEnv /\ lc = "parsed"

Next ==
    \/ AppProvision
    \/ RequestProvision
    \/ ServeHTTP(ServeRequests)
    \/ ServeHTTP_NoResponders
    \/ ServeHTTP_Timeout
    \/ ServeHTTP_BusError
    \/ ServeHTTP_Reply(Replies)
    \/ Tick
    \/ LateReply
    \/ CallEnds

Spec == Init /\ [][Next]_vars

\* every configuration, a few requests
InitLifecycle ==
    InitWith(AllConfigs, "idle", {NoRequest}) /\ env \in TimeoutEnvs /\ lc = "parsed"

NextLifecycle ==
    \/ AppProvision
    \/ RequestProvision
    \/ ServeHTTP(LifecycleRequests)
    \/ ServeHTTP_NoResponders
    \/ ServeHTTP_Timeout
    \/ ServeHTTP_BusError
    \/ ServeHTTP_Reply(LifecycleReplies)
    \/ Tick
    \/ LateReply
    \/ CallEnds

SpecLifecycle == InitLifecycle /\ [][NextLifecycle]_vars

\* NatsMsgForHttpRequest on every request and subject
InitTranslate ==
    InitWith(ServeConfigs, "input", TranslateRequests) /\ env = NoEnv /\ lc = "parsed"

NextTranslate == Translate

SpecTranslate == InitTranslate /\ [][NextTranslate]_vars

\* RedactHeaders under every value of LOGGER_REDACT_HEADERS
InitRedact ==
    InitWith(ServeConfigs, "log", {NoRequest}) /\ env \in RedactEnvs /\ lc = "parsed"

NextRedact == CallRedactHeaders(LogHeaders)

SpecRedact == InitRedact /\ [][NextRedact]_vars

\* the life of one NatsBridgeApp: parsed, provisioned, started, stopped
InitApp ==
    InitWith({EmptyConfig}, "idle", {NoRequest}) /\ env = NoEnv /\ lc = "new"

NextApp ==
    \/ UnmarshalCaddyfile(Caddyfiles)
    \/ AppProvision
    \/ AppProvision_LoadFails
    \/ Start
    \/ Stop

SpecApp == InitApp /\ [][NextApp]_vars

\* concurrent RedactHeaders calls in a process that changes the variable
\* and resets the cache
InitOnce ==
    /\ InitWith({EmptyConfig}, "idle", {NoRequest})
    /\ env \in {[NoEnv EXCEPT !.LOGGER_REDACT_HEADERS = v] : v \in OnceEnvValues}
    /\ lc = "parsed"

NextOnce ==
    \/ \E c \in Callers : RedactBegin(c, OnceHeaders)
    \/ \E c \in Callers : OnceDo(c)
    \/ \E c \in Callers : OnceStore(c)
    \/ \E c \in Callers : RedactReturn(c)
    \/ Setenv(OnceEnvValues)
    \/ resetRedactHeadersCache

SpecOnce == InitOnce /\ [][NextOnce]_vars

---------------------------------------------------------------------------
(* Properties *)

HasForbiddenChar(subject) == \E i \in 1..Len(subject) : subject[i] \in {">", "$", " "}

NoWriteCall(rw) == \A i \in 1..Len(rw.calls) : rw.calls[i].op # "Write"

\* the names of a header mapping that are, in any letter case, the given name
Spellings(h, name) == {k \in DOMAIN h : ToLower(k) = ToLower(name)}

Replied == pc = "done" /\ resp.kind = "reply"

\* the connection-level default of the route's alias, as configured
ConfiguredDefault ==
    IF config.ServerAlias \in DOMAIN config.Servers
    THEN config.Servers[config.ServerAlias].DefaultTimeout
    ELSE NilDuration

\* C1: when RequestMsg fails, the handler has written a status that depends on
\* the failure kind alone (404 no responders, 504 timeout, 500 any other error)
\* and no body, and returns nil for no responders and for timeout and an
\* error for any other failure.
C1_BusFailureStatus ==
    (pc = "done" /\ resp.kind \in {"noResponders", "timeout", "error"}) =>
        /\ w.wroteHeader
        /\ w.status = (IF resp.kind = "noResponders" THEN 404
                       ELSE IF resp.kind = "timeout" THEN 504 ELSE 500)
        /\ w.body = <<>>
        /\ NoWriteCall(w)
        /\ (resp.kind \in {"noResponders", "timeout"} => ret = "nil")
        /\ (resp.kind = "error" => ret \notin {"nil", "none"})

C1_Witness ==
    /\ pc = "done" /\ resp.kind = "noResponders"
    /\ w.status = 404 /\ ret = "nil" /\ Len(busCalls) = 1

\* C2: once Request.Provision has succeeded, the timeout of the endpoint is the
\* endpoint-level value if one was configured, else the connection-level
\* default of its alias if one was configured, else 60 seconds.
C2_TimeoutPrecedence ==
    p.provisioned =>
        p.Timeout = (IF ~config.routeTimeout.isNil THEN config.routeTimeout
                     ELSE IF ~ConfiguredDefault.isNil THEN ConfiguredDefault
                     ELSE PtrTo(60))

C2_Witness ==
    /\ p.provisioned
    /\ config.routeTimeout = PtrTo(1)
    /\ ConfiguredDefault = PtrTo(5)
    /\ p.Timeout = PtrTo(1)

\* C3 as stated: a provisioned endpoint has a concrete, strictly positive
\* timeout, whatever was configured.
C3_AlwaysPositive ==
    p.provisioned => (~p.Timeout.isNil /\ p.Timeout.val > 0)

\* C3 amended: a provisioned endpoint has a concrete timeout before it serves
\* any request (no request is served before Provision, and every RequestMsg is
\* issued with that timeout); the timeout is strictly positive unless the tier
\* that wins was configured with zero or a negative duration, which is kept.
C3_ConcreteTimeout ==
    /\ pc \in {"requesting", "done"} => p.provisioned
    /\ p.provisioned =>
        /\ ~p.Timeout.isNil
        /\ \/ p.Timeout.val > 0
           \/ ~config.routeTimeout.isNil /\ config.routeTimeout.val <= 0
           \/ /\ config.routeTimeout.isNil
              /\ ~ConfiguredDefault.isNil /\ ConfiguredDefault.val <= 0
        /\ \A i \in 1..Len(busCalls) : busCalls[i].timeout = p.Timeout.val

C3_Witness ==
    /\ pc = "requesting"
    /\ config.routeTimeout.isNil
    /\ ConfiguredDefault = PtrTo(0)
    /\ busCalls[1].timeout = 0

\* C4: NatsMsgForHttpRequest returns an error for every subject that holds
\* '>', '$' or a space, and a message with that subject for every other one.
C4_SubjectValidation ==
    pc = "translated" =>
        IF HasForbiddenChar(rIn.ctxSubject)
        THEN ret = "errSubject" /\ msg.isNil
        ELSE ret = "nil" /\ ~msg.isNil /\ msg.Subject = rIn.ctxSubject

C4_Witness ==
    /\ pc = "translated"
    /\ rIn.ctxSubject = <<"a", " ">>
    /\ ret = "errSubject"

\* C5: a request whose resolved subject is invalid is answered with 400, the
\* handler returns nil, and no RequestMsg is issued for it.
C5_InvalidSubject400 ==
    (pc \in {"requesting", "done"} /\ HasForbiddenChar(rIn.ctxSubject)) =>
        /\ pc = "done"
        /\ w.wroteHeader /\ w.status = 400
        /\ ret = "nil"
        /\ busCalls = <<>>
        /\ resp.kind = "none"

C5_Witness ==
    /\ pc = "done"
    /\ rIn.ctxSubject = <<"a", ".", "$">>
    /\ w.status = 400 /\ busCalls = <<>>

\* C6 as stated: when the request carries a header with the name of a
\* synthetic header, the value read from the message under that name is the
\* synthetic one (the method, the URL path, the raw query).
C6_SyntheticValueWins ==
    (pc = "translated" /\ ret = "nil") =>
        /\ HdrMethod \in DOMAIN rIn.Header =>
              NatsHeaderGet(msg.Header, HdrMethod) = rIn.Method
        /\ HdrUrlPath \in DOMAIN rIn.Header =>
              NatsHeaderGet(msg.Header, HdrUrlPath) = rIn.Path
        /\ HdrUrlQuery \in DOMAIN rIn.Header =>
              NatsHeaderGet(msg.Header, HdrUrlQuery) = rIn.RawQuery

\* C7 as stated: a reply whose Nats-Service-Error-Code holds an integer other
\* than "200" gives a response with that integer as status and the reply
\* body as body, without the service-error-code header (the connection taking
\* the bytes).
C7_StatusOverride ==
    LET code == NatsHeaderGet(resp.Header, HdrNatsServiceErrorCode)
    IN  (Replied /\ ret # "errWrite" /\ code # Code200 /\ ~Atoi(code).err) =>
            /\ w.wroteHeader /\ w.status = Atoi(code).val
            /\ w.body = resp.Data
            /\ Spellings(w.header, HdrNatsServiceErrorCode) = {}

\* C8: a reply without a service-error-code header, with or without a
\* service-error header, and a reply whose service-error-code is "200" both
\* give status 200 with the reply body (the connection taking the bytes).
C8_DefaultStatus200 ==
    LET spelt == Spellings(resp.Header, HdrNatsServiceErrorCode)
    IN  (/\ Replied /\ ret # "errWrite"
         /\ \A k \in spelt : \A i \in 1..Len(resp.Header[k]) : resp.Header[k][i] = Code200) =>
            /\ w.wroteHeader /\ w.status = 200
            /\ w.body = resp.Data
            /\ ret = "nil"

C8_Witness ==
    /\ Replied
    /\ DOMAIN resp.Header = {HdrNatsServiceError}
    /\ resp.Data = ValOk
    /\ w.status = 200 /\ w.body = ValOk

\* C9 as stated: a reply whose service-error-code header is present, is not
\* "200" and is no integer is answered with 500 and no body, and the handler
\* returns an error.
C9_MalformedCode500 ==
    (/\ Replied
     /\ HdrNatsServiceErrorCode \in DOMAIN resp.Header
     /\ resp.Header[HdrNatsServiceErrorCode][1] # Code200
     /\ Atoi(resp.Header[HdrNatsServiceErrorCode][1]).err) =>
        /\ w.wroteHeader /\ w.status = 500
        /\ w.body = <<>> /\ NoWriteCall(w)
        /\ ret \notin {"nil", "none"}

\* C10 as stated: no reply header whose name is, in any letter case, the
\* service-error name, the service-error-code name or Content-Length is among
\* the headers ServeHTTP puts on the response.
C10_InternalHeadersDropped ==
    Replied =>
        /\ Spellings(w.header, HdrNatsServiceError) = {}
        /\ Spellings(w.header, HdrNatsServiceErrorCode) = {}
        /\ Spellings(w.header, HdrContentLength) = {}

\* the internal headers of a reply, in any letter case
Excluded(k) ==
    ToLower(k) \in {ToLower(HdrNatsServiceError), ToLower(HdrNatsServiceErrorCode),
                    ToLower(HdrContentLength)}

\* whether the sequence part stands in the sequence whole, unbroken
IsRunOf(part, whole) ==
    \E i \in 0..(Len(whole) - Len(part)) : SubSeq(whole, i + 1, i + Len(part)) = part

RECURSIVE ValueCount(_, _)
ValueCount(h, keys) ==
    IF keys = {} THEN 0
    ELSE LET k == CHOOSE x \in keys : TRUE
         IN  Len(h[k]) + ValueCount(h, keys \ {k})

\* C11 as stated, for a code that is a status net/http accepts: a reply that
\* carries the service-error-code header under any letter case, with an
\* integer other than "200", is answered exactly as the same reply with the
\* header spelt Nats-Service-Error-Code is: same status, same body, same return.
C11_CaseInsensitiveCode ==
    \A k \in DOMAIN resp.Header :
        (/\ Replied
         /\ DOMAIN resp.Header = {k}
         /\ ToLower(k) = ToLower(HdrNatsServiceErrorCode)
         /\ resp.Header[k][1] # Code200
         /\ ~Atoi(resp.Header[k][1]).err
         /\ Atoi(resp.Header[k][1]).val \in 100..599) =>
            \E connOk \in BOOLEAN :
                LET canonical == [Header |-> [x \in {HdrNatsServiceErrorCode} |-> resp.Header[k]],
                                  Data |-> resp.Data]
                    out == Project(NewResponseWriter, canonical,
                                   <<HdrNatsServiceErrorCode>>, connOk)
                IN  /\ w.status = out.w.status
                    /\ w.body = out.w.body
                    /\ ret = out.ret

\* C12 as stated: on a successful reply every reply header outside the
\* exclusion set is on the response under its name with all of its values in
\* their order, the response has no header and no value besides these, and a
\* reply without headers still gives its body.
C12_HeadersCopied ==
    (Replied /\ ret = "nil") =>
        /\ \A k \in DOMAIN resp.Header :
                ~Excluded(k) =>
                    \E name \in DOMAIN w.sentHeader :
                        /\ ToLower(name) = ToLower(k)
                        /\ IsRunOf(resp.Header[k], w.sentHeader[name])
        /\ \A name \in DOMAIN w.sentHeader :
                LET from == {k \in DOMAIN resp.Header :
                                ~Excluded(k) /\ ToLower(k) = ToLower(name)}
                IN  from # {} /\ Len(w.sentHeader[name]) = ValueCount(resp.Header, from)
        /\ DOMAIN resp.Header = {} => w.body = resp.Data

\* C13 as stated: a successful translation gives a message that carries every
\* inbound header under its name with its values in their order, whose
\* X-NatsBridge-Method, X-NatsBridge-UrlPath and X-NatsBridge-UrlQuery read as
\* the method, the URL path and the raw query of the request, and whose
\* subject is the given one.
C13_TranslationContent ==
    (pc = "translated" /\ ret = "nil") =>
        /\ \A k \in DOMAIN rIn.Header :
                k \in DOMAIN msg.Header /\ msg.Header[k] = rIn.Header[k]
        /\ NatsHeaderGet(msg.Header, HdrMethod) = rIn.Method
        /\ NatsHeaderGet(msg.Header, HdrUrlPath) = rIn.Path
        /\ NatsHeaderGet(msg.Header, HdrUrlQuery) = rIn.RawQuery
        /\ msg.Subject = rIn.ctxSubject

\* C14 as stated: for a request whose body cannot be read to its end no
\* message is produced, no RequestMsg is issued and nothing of a response
\* body is written.
C14_UnreadableBody ==
    (pc \in {"requesting", "done"} /\ rIn.Body.failsAfter >= 0) =>
        /\ msg.isNil
        /\ busCalls = <<>>
        /\ w.body = <<>> /\ NoWriteCall(w)

\* C15: with a responder on the subject, a reply that arrives before the
\* resolved timeout has elapsed gives 200 with the reply body (the connection
\* taking the bytes); a timeout that elapses first gives 504 with no body, and
\* the response stays so when the reply arrives afterwards.
C15_TimeoutRace ==
    (pc = "done" /\ bus.responder /\ resp.kind \in {"reply", "timeout"}) =>
        /\ bus.delay < p.Timeout.val =>
                /\ resp.kind = "reply"
                /\ ret # "errWrite" => (w.status = 200 /\ w.body = resp.Data)
        /\ p.Timeout.val < bus.delay => resp.kind = "timeout"
        /\ resp.kind = "timeout" =>
                /\ w.wroteHeader /\ w.status = 504
                /\ w.body = <<>> /\ NoWriteCall(w)

C15_Witness ==
    /\ pc = "done" /\ resp.kind = "timeout"
    /\ p.Timeout = PtrTo(1) /\ bus.delay = 2
    /\ bus.delivered
    /\ w.status = 504 /\ w.body = <<>>

\* C16: after NatsBridgeApp.Provision every configured connection, and no
\* other, has a default timeout: the configured one when there was one (zero
\* stays zero), else 60 seconds; what one connection gets does not depend on
\* the others.
C16_ServerDefaults ==
    app.provisioned =>
        /\ DOMAIN app.Servers = DOMAIN config.Servers
        /\ \A a \in DOMAIN config.Servers :
                app.Servers[a].DefaultTimeout =
                    (IF config.Servers[a].DefaultTimeout.isNil THEN PtrTo(60)
                     ELSE config.Servers[a].DefaultTimeout)

C16_Witness ==
    /\ app.provisioned
    /\ DOMAIN config.Servers = {"default", "other"}
    /\ config.Servers["default"].DefaultTimeout = PtrTo(0)
    /\ config.Servers["other"].DefaultTimeout.isNil
    /\ app.Servers["default"].DefaultTimeout = PtrTo(0)
    /\ app.Servers["other"].DefaultTimeout = PtrTo(60)

\* the lists of entries that LOGGER_REDACT_HEADERS, as the operator wrote it,
\* may stand for, and whether they list the name in some letter case
EnvLists == {l \in RedactLists : JoinComma(l) = env.LOGGER_REDACT_HEADERS}

Listed(lists, name) ==
    \E l \in lists :
        \E i \in 1..Len(l) :
            l[i].name # EmptyString /\ ToLower(l[i].name) = ToLower(name)

\* C17: RedactHeaders of nil is nil; of a mapping, a mapping with the same
\* names (none for the empty one), in which a header whose name is listed in
\* some letter case has as many values as before, each "***", and every other
\* header has its values as before.
C17_Redaction ==
    pc = "logged" =>
        IF logHeaders.isNil THEN logResult.isNil
        ELSE LET lists == EnvLists IN
             /\ ~logResult.isNil
             /\ DOMAIN logResult.h = DOMAIN logHeaders.h
             /\ \A name \in DOMAIN logHeaders.h :
                    IF Listed(lists, name)
                    THEN /\ Len(logResult.h[name]) = Len(logHeaders.h[name])
                         /\ \A i \in 1..Len(logResult.h[name]) :
                                logResult.h[name][i] = <<"*", "*", "*">>
                    ELSE logResult.h[name] = logHeaders.h[name]

C17_Witness ==
    /\ pc = "logged"
    /\ env.LOGGER_REDACT_HEADERS =
            <<" ">> \o HdrAuthorizationLower \o <<" ", ",">> \o HdrXApiKey
    /\ DOMAIN logHeaders.h = {HdrAuthorizationUpper, HdrCustomHeader}
    /\ logHeaders.h[HdrAuthorizationUpper] = <<ValV1, ValV2>>
    /\ logResult.h[HdrAuthorizationUpper] = <<Mask, Mask>>
    /\ logResult.h[HdrCustomHeader] = logHeaders.h[HdrCustomHeader]

\* the error conditions of one request
ErrorCondition ==
    \/ HasForbiddenChar(rIn.ctxSubject)
    \/ rIn.Body.failsAfter >= 0
    \/ p.ServerAlias \notin DOMAIN app.Servers
    \/ p.Timeout.isNil
    \/ resp.kind \in {"noResponders", "timeout", "error"}
    \/ /\ resp.kind = "reply"
       /\ \E k \in Spellings(resp.Header, HdrNatsServiceErrorCode) :
              LET v == Atoi(resp.Header[k][1])
              IN  resp.Header[k][1] # Code200 /\ (v.err \/ v.val < 100 \/ v.val > 599)

\* C18 as stated: a call of ServeHTTP that ends in an error condition of the
\* request (invalid subject, unreadable body, unknown alias, missing timeout,
\* failure of the bus, an override status code that is no status code) has
\* written a status to the response when it ends.
C18_ErrorHasStatus ==
    (pc = "done" /\ ErrorCondition) => w.wroteHeader

\* C19 as stated, for a handler on a connection that has no default timeout
\* of its own: the timeout of the provisioned handler is the one of its route
\* when the route sets one; else the value of NATS_REQUEST_DEFAULT_TIMEOUT when
\* that is set and parses as a duration; else 60 seconds.
C19_EnvVarTimeout ==
    LET fromEnv == ParseDuration(env.NATS_REQUEST_DEFAULT_TIMEOUT)
    IN  (p.provisioned /\ ConfiguredDefault.isNil) =>
            p.Timeout = (IF ~config.routeTimeout.isNil THEN config.routeTimeout
                         ELSE IF ~fromEnv.err THEN PtrTo(fromEnv.val)
                         ELSE PtrTo(60))

\* C20: while the outcome of RequestMsg is not known the handler has called
\* nothing on the response; a request that timed out has the one call
\* WriteHeader(504) on it, and every request that went to the bus has its
\* first call on the response after the outcome.
C20_WritesAfterOutcome ==
    /\ pc = "requesting" => (w = NewResponseWriter /\ resp.kind = "none")
    /\ (pc = "done" /\ resp.kind = "timeout") =>
            w.calls = <<[op |-> "WriteHeader", code |-> 504]>>
    /\ (pc = "done" /\ w.calls # <<>> /\ busCalls # <<>>) => resp.kind # "none"

C20_Witness ==
    /\ pc = "done" /\ resp.kind = "timeout"
    /\ Len(busCalls) = 1
    /\ w.calls = <<[op |-> "WriteHeader", code |-> 504]>>
    /\ w.sentHeader = EmptyHeader /\ w.body = <<>>

\* the positions of the WriteHeader calls among the calls on a response
WriteHeaderCalls(rw) == {i \in 1..Len(rw.calls) : rw.calls[i].op = "WriteHeader"}

\* the statuses the handler answers its own error conditions with
ErrorStatuses == {StatusBadRequest, StatusNotFound, StatusGatewayTimeout,
                  StatusInternalServerError}

\* whether the call ran into an error branch of the handler: invalid subject,
\* failure of the bus, a service-error-code that is no integer
OwnError ==
    \/ HasForbiddenChar(rIn.ctxSubject)
    \/ resp.kind \in {"noResponders", "timeout", "error"}
    \/ /\ resp.kind = "reply"
       /\ LET code == NatsHeaderGet(resp.Header, HdrNatsServiceErrorCode)
          IN  code # EmptyString /\ code # Code200 /\ Atoi(code).err

\* C21 as stated: a call of ServeHTTP calls WriteHeader at most once, and after
\* a WriteHeader of 400, 404, 504 or 500 it sets no status and no header and
\* writes no byte of a body.
C21_NothingAfterErrorStatus ==
    /\ Cardinality(WriteHeaderCalls(w)) <= 1
    /\ \A i \in WriteHeaderCalls(w) :
            w.calls[i].code \in ErrorStatuses =>
                /\ w.body = <<>>
                /\ \A j \in (i + 1)..Len(w.calls) : w.calls[j].op = "Write"

\* C21 amended: a call of ServeHTTP calls WriteHeader at most once; when it
\* ends in an error branch of the handler, the WriteHeader of that error
\* status is the last call on the response; a WriteHeader of 400, 404, 504 or
\* 500 that is not the last call carries the service-error-code of the reply
\* and is followed by the one Write of the reply body.
C21_OneStatusPerCall ==
    /\ Cardinality(WriteHeaderCalls(w)) <= 1
    /\ (pc = "done" /\ OwnError) =>
            /\ w.calls # <<>>
            /\ w.calls[Len(w.calls)].op = "WriteHeader"
            /\ w.calls[Len(w.calls)].code \in ErrorStatuses
    /\ \A i \in WriteHeaderCalls(w) :
            (w.calls[i].code \in ErrorStatuses /\ i < Len(w.calls)) =>
                /\ resp.kind = "reply"
                /\ ~Atoi(NatsHeaderGet(resp.Header, HdrNatsServiceErrorCode)).err
                /\ w.calls[i].code = Atoi(NatsHeaderGet(resp.Header, HdrNatsServiceErrorCode)).val
                /\ i + 1 = Len(w.calls)
                /\ w.calls[i + 1].op = "Write"

C21_Witness ==
    /\ Replied
    /\ DOMAIN resp.Header = {HdrNatsServiceErrorCode}
    /\ resp.Header[HdrNatsServiceErrorCode] = <<Code500>>
    /\ resp.Data = ValOk
    /\ w.calls = <<[op |-> "WriteHeader", code |-> 500], [op |-> "Write", code |-> 0]>>
    /\ w.status = 500 /\ w.body = ValOk

\* C22: in every step from a state in which the endpoint is provisioned the
\* endpoint stays provisioned with the same, defined timeout, ServeHTTP does
\* not return ErrTimeoutNotInitialized, every RequestMsg is issued with that
\* timeout, waits no longer than it and takes no reply that arrives later.
C22_TimeoutFixed ==
    [][p.provisioned =>
        /\ p'.provisioned
        /\ ~p.Timeout.isNil
        /\ p'.Timeout = p.Timeout
        /\ ret' # "ErrTimeoutNotInitialized"
        /\ \A i \in 1..Len(busCalls') : busCalls'[i].timeout = p.Timeout.val
        /\ pc' = "requesting" =>
                (bus'.elapsed = 0 \/ bus'.elapsed <= p.Timeout.val)
        /\ resp'.kind = "reply" => bus'.delay <= p.Timeout.val]_vars

C22_Witness ==
    /\ pc = "done" /\ resp.kind = "reply"
    /\ p.provisioned
    /\ config.routeTimeout.isNil
    /\ ConfiguredDefault = PtrTo(5)
    /\ p.Timeout = PtrTo(5)
    /\ busCalls = <<[subject |-> <<"a">>, timeout |-> 5]>>
    /\ bus.delay = 2

\* C29 as stated: when NatsMsgForHttpRequest has returned, with a message or
\* with an error, the header mapping of the request is the one it held
\* before the call.
C29_RequestHeadersUnchanged ==
    pc = "translated" => r.Header = rIn.Header

\* C30 as stated: every status code ServeHTTP passes to WriteHeader is in the
\* range 100 to 599.
C30_StatusInRange ==
    \A i \in WriteHeaderCalls(w) : w.calls[i].code \in 100..599

\* the positions in ops of the calls of one kind
OpsOf(kind) == {i \in 1..Len(ops) : ops[i].op = kind}

\* whether one of the connections the process has made is open
SomeConnOpen == \E c \in DOMAIN conns : conns[c].open

\* C23: when Start returns nil, every configured connection was dialed and
\* every handler of every connection was subscribed on the connection of its
\* own alias after the dial of that connection; when Start returns an error,
\* the call that failed is the last call Start made: no dial and no Subscribe
\* follows the first failure.
C23_StartAllOrError ==
    lc \in {"started", "startFailed"} =>
        /\ (lc = "started") = (appRet = "nil")
        /\ appRet = "nil" =>
            \A a \in DOMAIN app.Servers :
                \E d \in OpsOf("dial") :
                    /\ ops[d].alias = a /\ ops[d].ok
                    /\ ops[d].conn = app.Servers[a].Conn
                    /\ conns[ops[d].conn].alias = a
                    /\ \A h \in 1..Len(app.Servers[a].Handlers) :
                        \E j \in OpsOf("subscribe") :
                            /\ ops[j].alias = a /\ ops[j].handler = h /\ ops[j].ok
                            /\ ops[j].conn = ops[d].conn
                            /\ d < j
        /\ appRet # "nil" =>
            /\ \A i \in 1..Len(ops) : ~ops[i].ok => i = Len(ops)
            /\ appRet \in {"errConnect", "errSubscribe"} =>
                    (ops # <<>> /\ ~ops[Len(ops)].ok)
            /\ appRet = "errNkey" => \A i \in 1..Len(ops) : ops[i].ok

C23_Witness ==
    /\ lc = "started" /\ appRet = "nil"
    /\ DOMAIN app.Servers = {"default", "other"}
    /\ Len(app.Servers["default"].Handlers) = 1
    /\ Len(app.Servers["other"].Handlers) = 1
    /\ Len(ops) = 4
    /\ Cardinality(subs) = 2

\* C24 as stated: when Start has returned an error, no connection of the app
\* is open and no handler is subscribed.
C24_NoPartialBringUp ==
    lc = "startFailed" => (~SomeConnOpen /\ subs = {})

\* C25 as stated: when Stop has returned, it has called Unsubscribe for every
\* handler of every connection, and every Close it made came after all of
\* its Unsubscribe calls.
C25_UnsubscribeAllThenClose ==
    lc = "stopped" =>
        /\ \A a \in DOMAIN app.Servers :
            \A h \in 1..Len(app.Servers[a].Handlers) :
                \E j \in OpsOf("unsubscribe") : ops[j].alias = a /\ ops[j].handler = h
        /\ \A i \in OpsOf("close") : \A j \in OpsOf("unsubscribe") : j < i

\* C26: when an Unsubscribe call has failed during Stop, Stop has returned
\* that failure, Close was called on the connection of every server after
\* the failed call, and no connection is open.
C26_StopClosesOnFailure ==
    (lc = "stopped" /\ \E j \in OpsOf("unsubscribe") : ~ops[j].ok) =>
        /\ appRet = "errUnsubscribe"
        /\ \A a \in DOMAIN app.Servers :
            /\ app.Servers[a].Conn # 0
            /\ ~conns[app.Servers[a].Conn].open
            /\ \E i \in OpsOf("close") :
                /\ ops[i].alias = a /\ ops[i].conn = app.Servers[a].Conn
                /\ \A j \in OpsOf("unsubscribe") : j < i
        /\ ~SomeConnOpen

C26_Witness ==
    /\ lc = "stopped" /\ appRet = "errUnsubscribe"
    /\ DOMAIN app.Servers = {"default", "other"}
    /\ Len(conns) = 2
    /\ ~conns[1].open /\ ~conns[2].open
    /\ Cardinality(OpsOf("close")) = 2
    /\ ~ops[1].ok

\* the subdirectives the Caddyfile gives an alias, over all its blocks, in order
RECURSIVE DirectivesOf(_, _)
DirectivesOf(blocks, a) ==
    IF Len(blocks) = 0 THEN <<>>
    ELSE (IF (IF blocks[1].alias = "" THEN "default" ELSE blocks[1].alias) = a
          THEN blocks[1].directives ELSE <<>>)
            \o DirectivesOf(Tail(blocks), a)

\* the arguments the subdirectives of one name carry, in order
RECURSIVE ArgsOf(_, _)
ArgsOf(ds, name) ==
    IF Len(ds) = 0 THEN <<>>
    ELSE (IF ds[1].name = name THEN <<ds[1].arg>> ELSE <<>>) \o ArgsOf(Tail(ds), name)

LastOrEmpty(args) == IF Len(args) = 0 THEN <<>> ELSE args[Len(args)]

C28_ComputedAtFirstCall ==
    /\ computed <= 1
    /\ \A c \in Callers :
        (calls[c].pc = "done" /\ ~calls[c].hdrs.isNil /\ DOMAIN calls[c].hdrs.h # {}) =>
            \E v \in first.envs :
                calls[c].result = RedactHeaders(calls[c].hdrs, ParseRedactList(v))

\* C28 amended: the list is computed at most once between two resets, from a
\* value LOGGER_REDACT_HEADERS had during the first RedactHeaders call since
\* the last reset that was given at least one header (a call with nil or with
\* a mapping without names does not ask for the list); every result a caller
\* holds is the redaction by that list, whatever the variable is now; after
\* a reset the list is not computed until such a call comes.
C28_ComputedAtFirstUse ==
    /\ computed <= 1
    /\ redactHeadersOnce =>
        /\ computed = 1
        /\ onceEnv \in need.envs
        /\ redactHeadersList = ParseRedactList(onceEnv)
    /\ \A c \in Callers :
        calls[c].pc = "done" =>
            IF calls[c].hdrs.isNil THEN calls[c].result.isNil
            ELSE IF DOMAIN calls[c].hdrs.h = {}
            THEN calls[c].result = calls[c].hdrs
            ELSE calls[c].result = RedactHeaders(calls[c].hdrs, ParseRedactList(onceEnv))
    /\ (computed = 0 /\ onceRunning = 0) => ~redactHeadersOnce
    /\ (computed = 0) => need.caller = 0 \/ ~need.over

C28_Witness ==
    /\ resets = 1
    /\ redactHeadersOnce /\ computed = 1
    /\ onceEnv = HdrAuthorizationLower
    /\ env.LOGGER_REDACT_HEADERS = HdrXApiKey
    /\ calls[1].pc = "done" /\ calls[2].pc = "done"
    /\ calls[1].result.h = [k \in {HdrAuthorization} |-> <<Mask>>]
    /\ calls[2].result.h = [k \in {HdrAuthorization} |-> <<Mask>>]

====
